---- MODULE Spec2Model ----
(***************************************************************************)
(* Worksheet maker: the generate endpoint (rate limiter, input validator,  *)
(* prompt template, failure classification) and the export-pdf endpoint    *)
(* (template rendering, headless browser, PDF response).                   *)
(***************************************************************************)
EXTENDS Integers, Sequences, FiniteSets, TLC

VARIABLES
    rateLimitMap,   \* generate/route.ts:28  Map<ip, {count, resetTime}>
    now,            \* Date.now(), in milliseconds
    admitWindow,    \* history: per key, when its 60 s window opened and the admissions since
    lastCall,       \* history: the latest checkRateLimit call and its result
    span            \* history: an observer counting admissions of one key in one 60 s span

limiterVars == <<rateLimitMap, now, admitWindow, lastCall, span>>

VARIABLES
    body,           \* the JSON payload of the request being validated
    parsed,         \* what inputSchema.parse(body) found, once it has run
    response        \* the response the validation step returned, or NoResponse

validateVars == <<body, parsed, response>>

VARIABLES
    lessonRequest,  \* a validated LessonRequest
    prompt          \* the system prompt assembled from it, as lines; <<>> before

promptVars == <<lessonRequest, prompt>>

VARIABLES
    reqs,           \* the generate requests in flight: where each one is in POST
    apiKey,         \* whether process.env holds the credential
    wire            \* the latest response sent, with the request and what led to it

generateVars == <<reqs, apiKey, wire>>

VARIABLES
    exports,        \* the export requests in flight: where each one is in POST
    browsers,       \* every headless browser launched so far: its request, and whether it is open
    templateFile    \* whether pdf_template.html can be read

exportVars == <<exports, browsers, templateFile>>

VARIABLES
    ui,             \* the state hooks of the form: inputs, markdown, flags, pages, errors
    rendered,       \* inputs.objectives as the handlers of the current render captured it
    edits,          \* history: what the objective operations since loading mean, and how
                    \* many of them ran since the last render
    calls,          \* where the form's generateWorksheet and exportPDF calls are
    toast           \* the latest toast shown

formVars == <<ui, rendered, edits, calls, toast>>

vars == <<limiterVars, validateVars, promptVars, generateVars, exportVars, formVars>>

(***************************************************************************)
(* Bounds of the model and constants of the program.                       *)
(***************************************************************************)
windowMs == 60000
maxRequests == 10
MaxTicks == 2
MaxChanged == 2
MaxBrowsers == 2
MaxPending == 2

\* request.ip || 'unknown': the keys the limiter is called with.
Keys == {"203.0.113.7", "unknown"}

\* The clock advances by one millisecond or by one whole window.
TickSteps == {1, windowMs}
ClockSteps(t) == (t \div windowMs) + (t % windowMs)

(***************************************************************************)
(* Rate limiter, generate/route.ts:30-48.                                  *)
(***************************************************************************)
MapSet(map, key, value) ==
    [x \in (DOMAIN map) \cup {key} |-> IF x = key THEN value ELSE map[x]]

\* Mutant: the window is over at the reset time itself.
WindowElapsedAtReset(record, t) == t >= record.resetTime

WindowElapsed(record, t) == t > record.resetTime

\* Mutant: the capacity test is off by one.
AtCapacityOffByOne(record) == record.count > maxRequests

AtCapacity(record) == record.count >= maxRequests

\* Mutant: the increment is lost.
IncrementLost(record) == record

Increment(record) == [record EXCEPT !.count = @ + 1]

FreshRecord(t) == [count |-> 1, resetTime |-> t + windowMs]

\* Mutant: a rejected call starts the key's window again.
checkRateLimitRenewing(map, ip, t) ==
    IF ip \notin DOMAIN map \/ WindowElapsed(map[ip], t)
    THEN [allowed |-> TRUE, map |-> MapSet(map, ip, FreshRecord(t))]
    ELSE IF AtCapacity(map[ip])
         THEN [allowed |-> FALSE,
               map |-> MapSet(map, ip, [map[ip] EXCEPT !.resetTime = t + windowMs])]
         ELSE [allowed |-> TRUE, map |-> MapSet(map, ip, Increment(map[ip]))]

checkRateLimit(map, ip, t) ==
    IF ip \notin DOMAIN map \/ WindowElapsed(map[ip], t)
    THEN [allowed |-> TRUE, map |-> MapSet(map, ip, FreshRecord(t))]
    ELSE IF AtCapacity(map[ip])
         THEN [allowed |-> FALSE, map |-> map]
         ELSE [allowed |-> TRUE, map |-> MapSet(map, ip, Increment(map[ip]))]

(***************************************************************************)
(* History of admissions, kept beside the limiter and never read by it:    *)
(* a key's window opens with the first admission after the previous        *)
(* window's 60 s have passed.                                              *)
(***************************************************************************)
NoCall == [key |-> "", allowed |-> FALSE, at |-> -1, count |-> 0]
NoSpan == [key |-> "", from |-> -1, n |-> 0]

InWindow(w, t) == t <= w.opened + windowMs

Admitted(hist, key, t) ==
    IF key \in DOMAIN hist /\ InWindow(hist[key], t)
    THEN MapSet(hist, key, [hist[key] EXCEPT !.admits = @ + 1])
    ELSE MapSet(hist, key, [opened |-> t, admits |-> 1])

InSpan(s, key, t) == s.key = key /\ s.from <= t /\ t < s.from + windowMs

\* One call of checkRateLimit(key) at the current time.
LimiterCall(key) ==
    LET r == checkRateLimit(rateLimitMap, key, now) IN
    /\ rateLimitMap' = r.map
    /\ admitWindow' = IF r.allowed THEN Admitted(admitWindow, key, now) ELSE admitWindow
    /\ lastCall' = [key |-> key, allowed |-> r.allowed, at |-> now,
                    count |-> r.map[key].count]
    /\ span' = IF r.allowed /\ InSpan(span, key, now)
               THEN [span EXCEPT !.n = @ + 1] ELSE span

Call(key) ==
    /\ LimiterCall(key)
    /\ UNCHANGED <<now, validateVars, promptVars, exportVars, formVars, generateVars>>

Tick(d) ==
    /\ ClockSteps(now) < MaxTicks
    /\ now' = now + d
    /\ UNCHANGED <<rateLimitMap, admitWindow, lastCall, span>>

\* An observer starts watching one key for the next 60 seconds.
Observe(key) ==
    /\ span = NoSpan
    /\ span' = [key |-> key, from |-> now, n |-> 0]
    /\ UNCHANGED <<rateLimitMap, now, admitWindow, lastCall>>
    /\ UNCHANGED <<validateVars, promptVars, exportVars, formVars, generateVars>>

LimiterStart ==
    /\ rateLimitMap = <<>>
    /\ now = 0
    /\ admitWindow = <<>>
    /\ lastCall = NoCall
    /\ span = NoSpan

(***************************************************************************)
(* JSON values. A number is kept in halves (Num(5) is 2.5), so that the    *)
(* range checks see values that are not integers.                           *)
(***************************************************************************)
Str(s) == [t |-> "string", v |-> s]
Num(halves) == [t |-> "number", v |-> halves]
Bool(b) == [t |-> "boolean", v |-> b]
Arr(items) == [t |-> "array", v |-> items]
Absent == [t |-> "undefined", v |-> 0]

Whole(n) == Num(2 * n)

(***************************************************************************)
(* Input validator: inputSchema, generate/route.ts:6-25, with zod's        *)
(* checks. An issue names the field (the head of its path) and its code.    *)
(***************************************************************************)
FieldOrder ==
    << "curriculum", "subject", "grade", "topic", "objectives", "duration",
       "support_level_desc", "core_level_desc", "extension_level_desc",
       "n_support", "n_core", "n_extension", "constraints", "materials",
       "include_teacher_notes", "include_rubric", "page_size", "max_pages" >>

FieldNames == {FieldOrder[i] : i \in 1..Len(FieldOrder)}

Issue(path, code) == [path |-> path, code |-> code]

\* z.string().min(n)
zStringMin(path, x, n) ==
    IF x.t # "string" THEN <<Issue(path, "invalid_type")>>
    ELSE IF Len(x.v) < n THEN <<Issue(path, "too_small")>>
    ELSE <<>>

\* z.string()
zString(path, x) ==
    IF x.t # "string" THEN <<Issue(path, "invalid_type")>> ELSE <<>>

\* z.boolean()
zBoolean(path, x) ==
    IF x.t # "boolean" THEN <<Issue(path, "invalid_type")>> ELSE <<>>

\* z.enum([...])
zEnum(path, x, options) ==
    IF x.t # "string" THEN <<Issue(path, "invalid_type")>>
    ELSE IF x.v \notin options THEN <<Issue(path, "invalid_enum_value")>>
    ELSE <<>>

\* .min(n) and .max(n) of z.number(), on a value in halves
BelowMin(halves, n) == halves < 2 * n
\* Mutant: the upper limit itself is refused.
AboveMaxInclusive(halves, n) == halves >= 2 * n

AboveMax(halves, n) == halves > 2 * n

\* z.number().min(lo).max(hi)
zNumberMinMax(path, x, lo, hi) ==
    IF x.t # "number" THEN <<Issue(path, "invalid_type")>>
    ELSE (IF BelowMin(x.v, lo) THEN <<Issue(path, "too_small")>> ELSE <<>>)
         \o (IF AboveMax(x.v, hi) THEN <<Issue(path, "too_big")>> ELSE <<>>)

RECURSIVE zElements(_, _, _)
zElements(path, items, i) ==
    IF i > Len(items) THEN <<>>
    ELSE zString(path, items[i]) \o zElements(path, items, i + 1)

\* z.array(z.string()).min(lo).max(hi)
zStringArrayMinMax(path, x, lo, hi) ==
    IF x.t # "array" THEN <<Issue(path, "invalid_type")>>
    ELSE (IF Len(x.v) < lo THEN <<Issue(path, "too_small")>> ELSE <<>>)
         \o (IF Len(x.v) > hi THEN <<Issue(path, "too_big")>> ELSE <<>>)
         \o zElements(path, x.v, 1)

PageSizes == {"A4", "Letter"}

inputSchema(field, x) ==
    CASE field = "curriculum" -> zStringMin(field, x, 1)
      [] field = "subject" -> zStringMin(field, x, 1)
      [] field = "grade" -> zStringMin(field, x, 1)
      [] field = "topic" -> zStringMin(field, x, 1)
      [] field = "objectives" -> zStringArrayMinMax(field, x, 1, 3)
      [] field = "duration" -> zStringMin(field, x, 1)
      [] field = "support_level_desc" -> zStringMin(field, x, 1)
      [] field = "core_level_desc" -> zStringMin(field, x, 1)
      [] field = "extension_level_desc" -> zStringMin(field, x, 1)
      [] field = "n_support" -> zNumberMinMax(field, x, 1, 10)
      [] field = "n_core" -> zNumberMinMax(field, x, 1, 15)
      [] field = "n_extension" -> zNumberMinMax(field, x, 1, 10)
      [] field = "constraints" -> zString(field, x)
      [] field = "materials" -> zString(field, x)
      [] field = "include_teacher_notes" -> zBoolean(field, x)
      [] field = "include_rubric" -> zBoolean(field, x)
      [] field = "page_size" -> zEnum(field, x, PageSizes)
      [] field = "max_pages" -> zNumberMinMax(field, x, 1, 10)

RECURSIVE CollectIssues(_, _)
CollectIssues(payload, i) ==
    IF i > Len(FieldOrder) THEN <<>>
    ELSE inputSchema(FieldOrder[i], payload[FieldOrder[i]])
         \o CollectIssues(payload, i + 1)

\* Mutant: the parse accepts everything.
parseAcceptsAll(payload) == <<>>

\* Mutant: the parse stops at the first issue.
parseFirstIssueOnly(payload) ==
    IF CollectIssues(payload, 1) = <<>> THEN <<>>
    ELSE <<Head(CollectIssues(payload, 1))>>

\* inputSchema.parse(body): the issues of every field, in schema order; the
\* parse throws a ZodError holding them when there is one.
parse(payload) == CollectIssues(payload, 1)

(***************************************************************************)
(* Payloads: the scenario request of the README and the form defaults,     *)
(* with up to MaxChanged fields replaced by another JSON value.            *)
(***************************************************************************)
BasePayload ==
    [ curriculum |-> Str("CCSS"), subject |-> Str("Math"), grade |-> Str("Grade 5"),
      topic |-> Str("Fractions"), objectives |-> Arr(<<Str("Add fractions")>>),
      duration |-> Str("45 min"), support_level_desc |-> Str("x"),
      core_level_desc |-> Str("y"), extension_level_desc |-> Str("z"),
      n_support |-> Whole(3), n_core |-> Whole(5), n_extension |-> Whole(2),
      constraints |-> Str(""), materials |-> Str(""),
      include_teacher_notes |-> Bool(TRUE), include_rubric |-> Bool(FALSE),
      page_size |-> Str("A4"), max_pages |-> Whole(3) ]

TextVariants == {Str(""), Whole(7), Absent}
FreeTextVariants == {Str("Fraction strips"), Bool(TRUE), Absent}
CountVariants ==
    {Whole(0), Whole(1), Whole(10), Whole(11), Num(5), Str("3"), Absent}
CoreCountVariants ==
    {Whole(0), Whole(1), Whole(15), Whole(16), Num(1), Num(5), Num(31), Str("5"), Absent}
FlagVariants == {Bool(TRUE), Bool(FALSE), Str("true"), Absent}
ObjectiveVariants ==
    { Arr(<<>>),
      Arr(<<Str("Understand equivalent fractions"), Str("Add fractions")>>),
      Arr(<<Str("a"), Str("b"), Str("c")>>),
      Arr(<<Str("a"), Str("b"), Str("c"), Str("d")>>),
      Arr(<<Str("a"), Whole(2)>>),
      Str("a"), Absent }
PageSizeVariants == {Str("Letter"), Str("A3"), Str("a4"), Whole(4), Absent}

Variants(field) ==
    CASE field \in {"n_support", "n_extension", "max_pages"} -> CountVariants
      [] field = "n_core" -> CoreCountVariants
      [] field = "objectives" -> ObjectiveVariants
      [] field \in {"constraints", "materials"} -> FreeTextVariants
      [] field \in {"include_teacher_notes", "include_rubric"} -> FlagVariants
      [] field = "page_size" -> PageSizeVariants
      [] OTHER -> TextVariants

\* A patch replaces one field by one of its variants; NoPatch replaces nothing.
NoPatch == <<"", Absent>>
Patches == UNION {{<<f, x>> : x \in Variants(f)} : f \in FieldNames}

RECURSIVE Patched(_, _, _)
Patched(p, changes, i) ==
    IF i > Len(changes) THEN p
    ELSE IF changes[i] = NoPatch THEN Patched(p, changes, i + 1)
    ELSE Patched([p EXCEPT ![changes[i][1]] = changes[i][2]], changes, i + 1)

Payloads ==
    {Patched(BasePayload, changes, 1) :
        changes \in [1..MaxChanged -> Patches \cup {NoPatch}]}

(***************************************************************************)
(* Prompt template, generate/route.ts:65-174. The prompt is kept as its    *)
(* sequence of lines. Fields hold one-line texts. The characters outside   *)
(* ASCII are written by their code points (\u2026 is the ellipsis).         *)
(***************************************************************************)
\* String(number) for a value in halves
NumText(halves) ==
    IF halves % 2 = 0 THEN ToString(halves \div 2)
    ELSE ToString(halves \div 2) \o ".5"

\* `${value}` in a template literal
Text(x) ==
    CASE x.t = "string" -> x.v
      [] x.t = "number" -> NumText(x.v)
      [] x.t = "boolean" -> (IF x.v THEN "true" ELSE "false")

Items(x) == [i \in 1..Len(x.v) |-> Text(x.v[i])]

\* Mutant: the list is padded to three bullets.
JoinLinesPadded(first, bullet, items) ==
    IF items = <<>> THEN <<first>>
    ELSE <<first \o bullet \o items[1]>>
         \o [i \in 1..2 |-> IF i + 1 <= Len(items) THEN bullet \o items[i + 1] ELSE bullet]

\* `${first}${items.map(obj => bullet + obj).join('\n')}`, split at the line breaks
JoinLines(first, bullet, items) ==
    IF items = <<>> THEN <<first>>
    ELSE <<first \o bullet \o items[1]>>
         \o [i \in 1..(Len(items) - 1) |-> bullet \o items[i + 1]]

\* generate/route.ts:155-163, the text of the rubric branch
RubricSection ==
    << "---",
       "",
       "## QUICK RUBRIC (4 levels)",
       "",
       "| Criteria | Beginning | Developing | Proficient | Advanced |",
       "|---|---|---|---|---|",
       "| Accuracy | \\u2026 | \\u2026 | \\u2026 | \\u2026 |",
       "| Reasoning/Working | \\u2026 | \\u2026 | \\u2026 | \\u2026 |",
       "| Communication | \\u2026 | \\u2026 | \\u2026 | \\u2026 |" >>

\* generate/route.ts:165-172, the text of the teacher-notes branch
TeacherNotesSection ==
    << "---",
       "",
       "## TEACHER NOTES (not for students)",
       "",
       "- Misconceptions to watch: \\u2026",
       "- Fast finishes: \\u2026",
       "- Differentiation moves: \\u2026",
       "- Standards mapping: \\u2026" >>

\* Mutant: the teacher notes come before the rubric.
RubricPartAfterNotes(inputs) ==
    IF inputs.include_rubric.v THEN TeacherNotesSection \o RubricSection ELSE <<"">>

\* Mutant: the rubric follows the teacher-notes flag.
RubricPartOnNotesFlag(inputs) ==
    IF inputs.include_teacher_notes.v THEN RubricSection ELSE <<"">>

\* `${inputs.include_rubric ? ... : ''}`, route.ts:155-163
RubricPart(inputs) ==
    IF inputs.include_rubric.v THEN RubricSection ELSE <<"">>

\* `${inputs.include_teacher_notes ? ... : ''}`, route.ts:165-172
TeacherNotesPart(inputs) ==
    IF inputs.include_teacher_notes.v THEN TeacherNotesSection ELSE <<"">>

\* Mutant: the heading drops the count.
QuestionsHeadingNoCount(n) == "### Questions"

\* `### Questions (${n} items)`, route.ts:110, 125 and 136
QuestionsHeading(n) == "### Questions (" \o Text(n) \o " items)"

\* Mutant: the answer key shows one entry per tier.
AnswerKeyOneEntry ==
    << "## ANSWER KEY",
       "",
       "- Support",
       "  1) \\u2026",
       "- Core",
       "  1) \\u2026",
       "- Extension",
       "  1) \\u2026" >>

\* generate/route.ts:143-153
AnswerKey ==
    << "## ANSWER KEY",
       "",
       "- Support",
       "  1) \\u2026",
       "  2) \\u2026",
       "- Core",
       "  1) \\u2026",
       "  2) \\u2026",
       "- Extension",
       "  1) \\u2026",
       "  2) \\u2026" >>

\* The template literal of generate/route.ts:65-174, line by line.
systemPrompt(inputs) ==
    << "You are \"Worksheet Maker v0\": a teacher-first generator of PRINTABLE worksheets.",
       "",
       "Your job: given a curriculum topic, create differentiated student worksheets + answer keys that can be exported to PDF with minimal editing.",
       "",
       "RULES",
       "- Output ONLY the worksheet content in Markdown. No chit-chat.",
       "- Use " \o Text(inputs.page_size) \o " with 1\" margins. No images or links.",
       "- Keep headings, numbering, and spacing consistent. Avoid overly long lines.",
       "- Add a top header with: **School:** ______   **Class:** ______   **Name:** ______   **Date:** ______",
       "- Three tiers of differentiation: Support, Core, Extension (unless overridden).",
       "- Provide an Answer Key for every item.",
       "- If diagrams are needed, describe them as text placeholders: [diagram: \\u2026].",
       "- Keep to \\u2264 " \o Text(inputs.max_pages) \o " pages total (soft limit). Prefer concise tasks over long prose.",
       "",
       "INPUT",
       "- Locale/Curriculum: " \o Text(inputs.curriculum),
       "- Subject: " \o Text(inputs.subject),
       "- Year/Grade: " \o Text(inputs.grade),
       "- Topic: " \o Text(inputs.topic) >>
    \o
    JoinLines("- Learning objectives (bullets): ", "\\u2022 ", Items(inputs.objectives))
    \o
    << "- Time available: " \o Text(inputs.duration),
       "- Difficulty per tier: " \o Text(inputs.support_level_desc) \o " | " \o Text(inputs.core_level_desc) \o " | " \o Text(inputs.extension_level_desc),
       "- Number of questions per tier: " \o Text(inputs.n_support) \o " / " \o Text(inputs.n_core) \o " / " \o Text(inputs.n_extension),
       "- Constraints & accommodations: " \o Text(inputs.constraints),
       "- Materials allowed: " \o Text(inputs.materials),
       "- Include teacher notes? " \o Text(inputs.include_teacher_notes),
       "- Include quick rubric? " \o Text(inputs.include_rubric),
       "- Page size: " \o Text(inputs.page_size),
       "",
       "OUTPUT FORMAT (exactly this structure)",
       "# " \o Text(inputs.subject) \o " \\u2014 " \o Text(inputs.topic) \o " (" \o Text(inputs.grade) \o ")",
       "",
       "**Aligned to:** " \o Text(inputs.curriculum),
       "",
       "**Learning objectives:**" >>
    \o
    JoinLines("", "- ", Items(inputs.objectives))
    \o
    << "",
       "**Time:** " \o Text(inputs.duration) \o "   **Materials:** " \o Text(inputs.materials),
       "",
       "---",
       "",
       "## SUPPORT",
       "",
       "Brief intro (1\\u20132 sentences) at an accessible reading level. Include scaffolds (sentence starters, worked example, vocabulary box).",
       "",
       QuestionsHeading(inputs.n_support),
       "1) ...",
       "2) ...",
       "...",
       "",
       "### Mini self-check",
       "- I can\\u2026",
       "- I need help with\\u2026",
       "",
       "---",
       "",
       "## CORE",
       "",
       "One-sentence context. Balanced item types (MCQ/short answer/structured).",
       "",
       QuestionsHeading(inputs.n_core),
       "1) ...",
       "2) ...",
       "...",
       "",
       "---",
       "",
       "## EXTENSION",
       "",
       "Richer application or reasoning. Multi-step, pattern/generalization, or explain-your-thinking prompts.",
       "",
       QuestionsHeading(inputs.n_extension),
       "1) ...",
       "2) ...",
       "...",
       "",
       "---",
       "" >>
    \o
    AnswerKey
    \o
    << "" >>
    \o
    RubricPart(inputs)
    \o
    << "" >>
    \o
    TeacherNotesPart(inputs)
    \o
    << "",
       "=== End of Worksheet ===" >>

(***************************************************************************)
(* Failures and their classification, generate/route.ts:188-226. A thrown  *)
(* value is a ZodError, another Error, or not an Error at all; of an       *)
(* Error's message the model keeps which of the searched substrings it     *)
(* contains.                                                               *)
(***************************************************************************)
Markers == {"API key", "quota", "limit", "safety", "blocked"}

Messages == SUBSET Markers

NoError == [type |-> "none", message |-> {}, issues |-> <<>>]
ZodError(issues) == [type |-> "ZodError", message |-> {}, issues |-> issues]
ErrorWith(message) == [type |-> "Error", message |-> message, issues |-> <<>>]
NonError == [type |-> "thrown value", message |-> {}, issues |-> <<>>]

\* The message of a ZodError is the text of its issues, and the issue of an
\* enum quotes the value received: of the searched substrings it holds those
\* that a rejected page_size holds.
ZodErrorOf(payload) ==
    [ZodError(parse(payload)) EXCEPT !.message =
        IF payload.page_size.t = "string" /\ payload.page_size.v \notin PageSizes
        THEN {m \in Markers : m = payload.page_size.v}
        ELSE {}]

\* Mutant: the message does not say 'API key'.
MissingKeyErrorUnmarked == ErrorWith({})

\* lib/ai-config.ts:8: of the searched substrings the message holds 'API key' only
MissingKeyError == ErrorWith({"API key"})

\* error.message.includes(s)
includes(message, s) == s \in message

Json(status, message, errors, markdown) ==
    [status |-> status, message |-> message, errors |-> errors, markdown |-> markdown]

NoResponse == Json(0, "", <<>>, "")

RateLimited ==
    Json(429, "Rate limit exceeded. Please try again in a minute.", <<>>, "")

Generated(text) == Json(200, "", <<>>, text)

\* Mutant: the safety branch is missing.
catchWithoutSafety(error) ==
    IF error.type = "ZodError"
    THEN Json(400, "Invalid input data", error.issues, "")
    ELSE IF error.type = "Error" /\ includes(error.message, "API key")
    THEN Json(401, "Google AI API key is not configured or invalid. Please check your GOOGLE_GENERATIVE_AI_API_KEY environment variable.", <<>>, "")
    ELSE IF error.type = "Error"
            /\ (includes(error.message, "quota") \/ includes(error.message, "limit"))
    THEN Json(429, "API quota exceeded. Please try again later.", <<>>, "")
    ELSE Json(500, "Failed to generate worksheet. Please try again.", <<>>, "")

\* Mutant: the message is searched before the kind of error is asked for,
\* and for the quota before the credential.
catchQuotaFirst(error) ==
    IF error.type # "thrown value"
            /\ (includes(error.message, "quota") \/ includes(error.message, "limit"))
    THEN Json(429, "API quota exceeded. Please try again later.", <<>>, "")
    ELSE IF error.type = "ZodError"
    THEN Json(400, "Invalid input data", error.issues, "")
    ELSE IF error.type = "Error" /\ includes(error.message, "API key")
    THEN Json(401, "Google AI API key is not configured or invalid. Please check your GOOGLE_GENERATIVE_AI_API_KEY environment variable.", <<>>, "")
    ELSE IF error.type = "Error"
            /\ (includes(error.message, "safety") \/ includes(error.message, "blocked"))
    THEN Json(400, "Content was blocked by safety filters. Please try different inputs.", <<>>, "")
    ELSE Json(500, "Failed to generate worksheet. Please try again.", <<>>, "")

\* The catch block of POST.
catch(error) ==
    IF error.type = "ZodError"
    THEN Json(400, "Invalid input data", error.issues, "")
    ELSE IF error.type = "Error" /\ includes(error.message, "API key")
    THEN Json(401, "Google AI API key is not configured or invalid. Please check your GOOGLE_GENERATIVE_AI_API_KEY environment variable.", <<>>, "")
    ELSE IF error.type = "Error"
            /\ (includes(error.message, "quota") \/ includes(error.message, "limit"))
    THEN Json(429, "API quota exceeded. Please try again later.", <<>>, "")
    ELSE IF error.type = "Error"
            /\ (includes(error.message, "safety") \/ includes(error.message, "blocked"))
    THEN Json(400, "Content was blocked by safety filters. Please try different inputs.", <<>>, "")
    ELSE Json(500, "Failed to generate worksheet. Please try again.", <<>>, "")

(***************************************************************************)
(* The validation step of POST taken alone (route.ts:61-62 and 191-196).   *)
(***************************************************************************)
NotParsed == [done |-> FALSE, issues |-> <<>>]

Validate ==
    /\ ~parsed.done
    /\ parsed' = [done |-> TRUE, issues |-> parse(body)]
    /\ response' = IF parse(body) = <<>> THEN NoResponse
                   ELSE catch(ZodErrorOf(body))
    /\ UNCHANGED <<body, limiterVars, promptVars, exportVars, formVars, generateVars>>

ValidateStart ==
    /\ body \in Payloads
    /\ parsed = NotParsed
    /\ response = NoResponse

(***************************************************************************)
(* The prompt assembly of POST taken alone (route.ts:65-174).              *)
(***************************************************************************)
LessonRequests == {p \in Payloads : parse(p) = <<>>}

Assemble ==
    /\ prompt = <<>>
    /\ prompt' = systemPrompt(lessonRequest)
    /\ UNCHANGED <<lessonRequest, limiterVars, validateVars, generateVars, exportVars, formVars>>

PromptStart ==
    /\ lessonRequest \in LessonRequests
    /\ prompt = <<>>

(***************************************************************************)
(* POST of the generate endpoint, generate/route.ts:50-227. A request runs *)
(* without interruption up to its next await: the limiter call and the     *)
(* 429 are one step, as are everything between the body's arrival and the  *)
(* call of generateText, and the handling of its result.                   *)
(***************************************************************************)
Reqs == {"r1", "r2"}
NoIp == "undefined"
Ips == {"203.0.113.7", NoIp}

\* The bodies the concurrent requests carry.
Bodies ==
    { BasePayload,
      [BasePayload EXCEPT !.n_core = Whole(16)],
      [BasePayload EXCEPT !.topic = Str(""), !.n_support = Whole(0)],
      [BasePayload EXCEPT !.page_size = Str("limit")] }

Texts == {"# Math \\u2014 Fractions (Grade 5)"}

\* history: parses, prompts and aiCalls count what the request has done
Idle ==
    [pc |-> "idle", addr |-> "", ip |-> "", sent |-> 0, system |-> <<>>,
     parses |-> 0, prompts |-> 0, aiCalls |-> 0]

Sent(r, stage, error, resp) ==
    [req |-> r, stage |-> stage, error |-> error, response |-> resp]

NoWire == Sent("", "", NoError, NoResponse)

\* Mutant: every request is counted under the one key 'unknown'.
ClientKeyShared(ip) == "unknown"

\* const ip = request.ip || 'unknown'
ClientKey(ip) == IF ip = NoIp THEN "unknown" ELSE ip

\* The limiter's own effect of one call, with the history of admissions.
LimiterCore(key) ==
    LET r == checkRateLimit(rateLimitMap, key, now) IN
    /\ rateLimitMap' = r.map
    /\ admitWindow' = IF r.allowed THEN Admitted(admitWindow, key, now) ELSE admitWindow

\* route.ts:52-61, up to `await request.json()`
Arrive(r, ip) ==
    /\ reqs[r].pc = "idle"
    /\ LimiterCore(ClientKey(ip))
    /\ IF checkRateLimit(rateLimitMap, ClientKey(ip), now).allowed
       THEN /\ reqs' = [reqs EXCEPT ![r].pc = "awaitBody", ![r].addr = ip,
                                    ![r].ip = ClientKey(ip)]
            /\ UNCHANGED wire
       ELSE /\ reqs' = [reqs EXCEPT ![r].pc = "done", ![r].addr = ip,
                                    ![r].ip = ClientKey(ip),
                                    ![r].sent = @ + 1]
            /\ wire' = Sent(r, "limiter", NoError, RateLimited)
    /\ UNCHANGED <<now, lastCall, span, apiKey, validateVars, promptVars, exportVars, formVars>>

\* request.json() rejects: the body is not JSON
BodyMalformed(r, error) ==
    /\ reqs[r].pc = "awaitBody"
    /\ reqs' = [reqs EXCEPT ![r].pc = "done", ![r].sent = @ + 1]
    /\ wire' = Sent(r, "json", error, catch(error))
    /\ UNCHANGED <<limiterVars, apiKey, validateVars, promptVars, exportVars, formVars>>

\* route.ts:61-184, from the body to the call of generateText
BodyArrives(r, payload) ==
    LET issues == parse(payload) IN
    /\ reqs[r].pc = "awaitBody"
    /\ IF issues # <<>>
       THEN /\ reqs' = [reqs EXCEPT ![r].pc = "done", ![r].sent = @ + 1,
                                    ![r].parses = @ + 1]
            /\ wire' = Sent(r, "parse", ZodErrorOf(payload), catch(ZodErrorOf(payload)))
       ELSE IF ~apiKey
       THEN /\ reqs' = [reqs EXCEPT ![r].pc = "done", ![r].sent = @ + 1,
                                    ![r].parses = @ + 1, ![r].prompts = @ + 1,
                                    ![r].system = systemPrompt(payload)]
            /\ wire' = Sent(r, "credential", MissingKeyError, catch(MissingKeyError))
       ELSE /\ reqs' = [reqs EXCEPT ![r].pc = "awaitAI",
                                    ![r].parses = @ + 1, ![r].prompts = @ + 1,
                                    ![r].aiCalls = @ + 1,
                                    ![r].system = systemPrompt(payload)]
            /\ UNCHANGED wire
    /\ UNCHANGED <<limiterVars, apiKey, validateVars, promptVars, exportVars, formVars>>

\* route.ts:178-186: generateText resolves
AIReturns(r, text) ==
    /\ reqs[r].pc = "awaitAI"
    /\ reqs' = [reqs EXCEPT ![r].pc = "done", ![r].sent = @ + 1]
    /\ wire' = Sent(r, "generateText", NoError, Generated(text))
    /\ UNCHANGED <<limiterVars, apiKey, validateVars, promptVars, exportVars, formVars>>

\* Mutant: a failed call is made again.
AIFailsRetried(r, error) ==
    /\ reqs[r].pc = "awaitAI"
    /\ reqs' = [reqs EXCEPT ![r].aiCalls = @ + 1]
    /\ UNCHANGED <<wire, limiterVars, apiKey, validateVars, promptVars, exportVars, formVars>>

\* generateText rejects
AIFails(r, error) ==
    /\ reqs[r].pc = "awaitAI"
    /\ reqs' = [reqs EXCEPT ![r].pc = "done", ![r].sent = @ + 1]
    /\ wire' = Sent(r, "generateText", error, catch(error))
    /\ UNCHANGED <<limiterVars, apiKey, validateVars, promptVars, exportVars, formVars>>

\* Mutant: a request that ends gives its unit of quota back.
FinishRefunding(r) ==
    /\ reqs[r].pc = "done"
    /\ reqs' = [reqs EXCEPT ![r] = Idle]
    /\ wire' = IF wire.req = r THEN NoWire ELSE wire
    /\ rateLimitMap' =
          IF reqs[r].ip \in DOMAIN rateLimitMap /\ rateLimitMap[reqs[r].ip].count > 1
          THEN [rateLimitMap EXCEPT ![reqs[r].ip].count = @ - 1]
          ELSE rateLimitMap
    /\ UNCHANGED <<now, admitWindow, lastCall, span, apiKey, validateVars, promptVars,
                   exportVars, formVars>>

\* The response has gone out; the slot takes the next request.
Finish(r) ==
    /\ reqs[r].pc = "done"
    /\ reqs' = [reqs EXCEPT ![r] = Idle]
    /\ wire' = IF wire.req = r THEN NoWire ELSE wire
    /\ UNCHANGED <<limiterVars, apiKey, validateVars, promptVars, exportVars, formVars>>

\* A whole window passes, and one millisecond more.
WindowPasses ==
    /\ Tick(windowMs + 1)
    /\ UNCHANGED <<generateVars, validateVars, promptVars, exportVars, formVars>>

\* What request.json() and generateText may throw.
Thrown == {ErrorWith(m) : m \in Messages} \cup {NonError}

\* The failures the concurrent requests meet.
Failures == {ErrorWith({"quota"}), NonError}

GenerateStart ==
    /\ reqs = [r \in Reqs |-> Idle]
    /\ apiKey \in BOOLEAN
    /\ wire = NoWire

(***************************************************************************)
(* POST of the export-pdf endpoint, export-pdf/route.ts:17-103, and the    *)
(* request the form sends to it. A request runs without interruption up to *)
(* its next await. The Generation Client, the browser and the PDF printer  *)
(* are collaborators: each call of one returns or throws.                  *)
(***************************************************************************)
Exps == {"e1", "e2"}

Null == [t |-> "null", v |-> 0]
Obj(fields) == [t |-> "object", v |-> fields]

\* Mutant: only undefined is falsy.
TruthyUnlessAbsent(x) == x.t # "undefined"

\* Boolean(x), and the test of `!x` and `x || y`
Truthy(x) ==
    CASE x.t \in {"undefined", "null"} -> FALSE
      [] x.t = "boolean" -> x.v
      [] x.t = "number" -> x.v # 0
      [] x.t = "string" -> x.v # ""
      [] OTHER -> TRUE

\* x.key, of a value that is neither null nor undefined
Member(x, key) ==
    IF x.t = "object" /\ key \in DOMAIN x.v THEN x.v[key] ELSE Absent

\* Mutant: only the boolean true switches the debug mode on.
debugModeOnTrueOnly(templateData) ==
    Member(templateData, "debug").t = "boolean" /\ Member(templateData, "debug").v

\* const debugMode = Boolean(templateData.debug), route.ts:25
debugMode(templateData) == Truthy(Member(templateData, "debug"))

\* A JSON object with the keys an export body may carry; a key that is not
\* sent is Absent.
ExportBody(templateData, markdown, pageSize, filename) ==
    Obj([templateData |-> templateData, markdown |-> markdown,
         pageSize |-> pageSize, filename |-> filename])

\* The body the form's exportPDF sends.
exportPDF(markdown, inputs) ==
    ExportBody(Absent, Str(markdown), inputs.page_size,
               Str(Text(inputs.subject) \o "-" \o Text(inputs.topic) \o "-worksheet"))

TemplateData(debug) == Obj([title |-> Str("Fractions"), debug |-> debug])

ExportBodies ==
    { ExportBody(Absent, Str("# Title\n\nBody"), Str("Letter"), Str("doc")),
      exportPDF("# Math \\u2014 Fractions (Grade 5)", BasePayload),
      ExportBody(TemplateData(Absent), Absent, Str("Letter"), Str("doc")),
      ExportBody(TemplateData(Bool(FALSE)), Absent, Str("A4"), Absent),
      ExportBody(TemplateData(Bool(TRUE)), Absent, Str("A4"), Str("doc")),
      ExportBody(TemplateData(Str("yes")), Absent, Absent, Str("")),
      ExportBody(TemplateData(Num(0)), Absent, Absent, Str("doc")),
      ExportBody(Str("Fractions"), Absent, Str("letter"), Str("doc")),
      ExportBody(Null, Absent, Str("A4"), Str("doc")),
      ExportBody(Absent, Absent, Str("A4"), Str("doc")),
      Null }

\* A body that is not JSON: request.json() rejects.
NotJson == [t |-> "not JSON", v |-> 0]

Htmls == {"<html><body><h1>Fractions</h1></body></html>"}

PdfLengths == {2048}

NoFailure == [type |-> "none", message |-> "", stack |-> Absent]
Failure(message) ==
    [type |-> "Error", message |-> message,
     stack |-> Str("Error: " \o message \o "\n    at POST")]
ThrownValue == [type |-> "thrown value", message |-> "", stack |-> Absent]

\* What a collaborator of the export may throw.
ExportFailures == {Failure("Navigation timeout of 30000 ms exceeded"), ThrownValue}

Margin(top, right, bottom, left) ==
    [top |-> top, right |-> right, bottom |-> bottom, left |-> left]

NoPdf == [format |-> "", margin |-> Margin("", "", "", ""), length |-> 0]

Reply(status, contentType, disposition, message, stack, html, pdf) ==
    [status |-> status, contentType |-> contentType, disposition |-> disposition,
     message |-> message, stack |-> stack, html |-> html, pdf |-> pdf]

NoReply == Reply(0, "", "", "", Absent, "", NoPdf)

\* route.ts:23
ContentRequired ==
    Reply(400, "application/json", "", "Template data is required", Absent, "", NoPdf)

\* route.ts:43
DebugHtml(html) == Reply(200, "application/json", "", "", Absent, html, NoPdf)

\* route.ts:87-92
PdfResponse(pdf, filename) ==
    Reply(200, "application/pdf",
          "attachment; filename=\""
              \o (IF Truthy(filename) THEN Text(filename) ELSE "document")
              \o ".pdf\"",
          "", Absent, "", pdf)

\* Mutant: the stack is left out.
catchExportNoStack(error) ==
    Reply(500, "application/json", "",
          IF error.type = "Error" THEN error.message ELSE "Unknown error",
          Absent, "", NoPdf)

\* The catch block of the export's POST, route.ts:94-102
catchExport(error) ==
    Reply(500, "application/json", "",
          IF error.type = "Error" THEN error.message ELSE "Unknown error",
          IF error.type = "Error" THEN error.stack ELSE Absent,
          "", NoPdf)

\* Mutant: the page size is compared without regard to case.
PdfOptionsAnyCase(pageSize) ==
    [format |-> IF pageSize.t = "string" /\ pageSize.v \in {"Letter", "letter"}
                THEN "letter" ELSE "a4",
     margin |-> Margin("1in", "1in", "1in", "1in")]

\* page.pdf({format, margin, printBackground, preferCSSPageSize}), route.ts:77-82
PdfOptions(pageSize) ==
    [format |-> IF pageSize.t = "string" /\ pageSize.v = "Letter" THEN "letter" ELSE "a4",
     margin |-> Margin("1in", "1in", "1in", "1in")]

\* The buffer page.pdf resolves with: what was printed, and its length.
PdfBuffer(options, length) ==
    [format |-> options.format, margin |-> options.margin, length |-> length]

ExportIdle ==
    [pc |-> "idle", body |-> Null, debugMode |-> FALSE, html |-> "", browser |-> 0,
     reads |-> 0, aiCalls |-> 0, launches |-> 0, sent |-> 0,
     error |-> NoFailure, response |-> NoReply]

\* The request ends with a response.
Responds(e, slot, error, reply) ==
    exports' = [exports EXCEPT ![e] =
                    [slot EXCEPT !.pc = "done", !.sent = @ + 1,
                                 !.error = error, !.response = reply]]

ExportQuiet ==
    /\ exports = [e \in Exps |-> ExportIdle]
    /\ browsers = <<>>
    /\ templateFile = TRUE

Others == <<limiterVars, validateVars, promptVars, generateVars, formVars>>

\* A request arrives; route.ts:17-20, up to `await request.json()`
ExportArrive(e, payload) ==
    /\ exports[e].pc = "idle"
    /\ exports' = [exports EXCEPT ![e].pc = "awaitJson", ![e].body = payload]
    /\ UNCHANGED <<browsers, templateFile, Others>>

\* request.json() rejects: the body is not JSON
ExportJsonFails(e, error) ==
    /\ exports[e].pc = "awaitJson"
    /\ exports[e].body = NotJson
    /\ Responds(e, exports[e], error, catchExport(error))
    /\ UNCHANGED <<browsers, templateFile, Others>>

\* route.ts:20-36, from the parsed body to the call of generateContent
ExportJson(e) ==
    LET b == exports[e].body
        templateData == Member(b, "templateData")
        read == [exports[e] EXCEPT !.reads = @ + 1]
    IN  /\ exports[e].pc = "awaitJson"
        /\ b # NotJson
        /\ IF b.t \in {"null", "undefined"}
           THEN Responds(e, exports[e],
                         Failure("Cannot destructure property 'templateData' of null"),
                         catchExport(Failure("Cannot destructure property 'templateData' of null")))
           ELSE IF ~Truthy(templateData)
           THEN Responds(e, exports[e], NoFailure, ContentRequired)
           ELSE IF ~templateFile
           THEN Responds(e, read, Failure("ENOENT: no such file or directory"),
                         catchExport(Failure("ENOENT: no such file or directory")))
           ELSE IF ~apiKey
           THEN Responds(e, read,
                         Failure("Google AI API key is missing. Please set GOOGLE_GENERATIVE_AI_API_KEY environment variable."),
                         catchExport(Failure("Google AI API key is missing. Please set GOOGLE_GENERATIVE_AI_API_KEY environment variable.")))
           ELSE exports' = [exports EXCEPT ![e] =
                               [read EXCEPT !.pc = "generateContent",
                                            !.aiCalls = @ + 1,
                                            !.debugMode = debugMode(templateData)]]
        /\ UNCHANGED <<browsers, templateFile, Others>>

\* generateContent resolves; route.ts:40-67, up to the launch of the browser
ExportAIReturns(e, html) ==
    /\ exports[e].pc = "generateContent"
    /\ IF exports[e].debugMode
       THEN Responds(e, [exports[e] EXCEPT !.html = html], NoFailure, DebugHtml(html))
       ELSE exports' = [exports EXCEPT ![e].pc = "launch", ![e].html = html,
                                       ![e].launches = @ + 1]
    /\ UNCHANGED <<browsers, templateFile, Others>>

\* generateContent rejects, or response.text() throws
ExportAIFails(e, error) ==
    /\ exports[e].pc = "generateContent"
    /\ Responds(e, exports[e], error, catchExport(error))
    /\ UNCHANGED <<browsers, templateFile, Others>>

\* launch resolves with a new browser; route.ts:58-68
LaunchReturns(e) ==
    /\ exports[e].pc = "launch"
    /\ Len(browsers) < MaxBrowsers
    /\ browsers' = Append(browsers, [owner |-> e, open |-> TRUE])
    /\ exports' = [exports EXCEPT ![e].pc = "newPage", ![e].browser = Len(browsers) + 1]
    /\ UNCHANGED <<templateFile, Others>>

\* launch (or chromium.executablePath) rejects: there is no browser
LaunchFails(e, error) ==
    /\ exports[e].pc = "launch"
    /\ Responds(e, exports[e], error, catchExport(error))
    /\ UNCHANGED <<browsers, templateFile, Others>>

\* The awaited page calls between the launch and page.pdf, route.ts:68-73
PageSteps == <<"newPage", "setContent", "emulateMediaType", "addStyleTag", "pdf">>

StepAfter(pc) == PageSteps[(CHOOSE i \in 1..Len(PageSteps) : PageSteps[i] = pc) + 1]

\* newPage, setContent, emulateMediaType or addStyleTag resolves
PageStepReturns(e) ==
    /\ exports[e].pc \in {"newPage", "setContent", "emulateMediaType", "addStyleTag"}
    /\ exports' = [exports EXCEPT ![e].pc = StepAfter(@)]
    /\ UNCHANGED <<browsers, templateFile, Others>>

\* one of them rejects (setContent: also by its 30 s timeout): control goes
\* to the catch block, which does not touch the browser
PageStepFails(e, error) ==
    /\ exports[e].pc \in {"newPage", "setContent", "emulateMediaType", "addStyleTag"}
    /\ Responds(e, exports[e], error, catchExport(error))
    /\ UNCHANGED <<browsers, templateFile, Others>>

\* page.pdf resolves; route.ts:77-84, up to `await browser.close()`
PdfReturns(e, length) ==
    /\ exports[e].pc = "pdf"
    /\ exports' = [exports EXCEPT
            ![e].pc = "close",
            ![e].response =
                PdfResponse(PdfBuffer(PdfOptions(Member(exports[e].body, "pageSize")),
                                      length),
                            Member(exports[e].body, "filename"))]
    /\ UNCHANGED <<browsers, templateFile, Others>>

\* page.pdf rejects
PdfFails(e, error) ==
    /\ exports[e].pc = "pdf"
    /\ Responds(e, exports[e], error, catchExport(error))
    /\ UNCHANGED <<browsers, templateFile, Others>>

\* browser.close() resolves and the PDF is returned; route.ts:84-92
CloseReturns(e) ==
    /\ exports[e].pc = "close"
    /\ browsers' = [browsers EXCEPT ![exports[e].browser].open = FALSE]
    /\ Responds(e, exports[e], NoFailure, exports[e].response)
    /\ UNCHANGED <<templateFile, Others>>

\* browser.close() rejects: the browser may or may not have gone
CloseFails(e, error, gone) ==
    /\ exports[e].pc = "close"
    /\ browsers' = [browsers EXCEPT ![exports[e].browser].open = ~gone]
    /\ Responds(e, exports[e], error, catchExport(error))
    /\ UNCHANGED <<templateFile, Others>>

\* The response has been delivered; the slot takes the next request.
ExportFinish(e) ==
    /\ exports[e].pc = "done"
    /\ exports' = [exports EXCEPT ![e] = ExportIdle]
    /\ UNCHANGED <<browsers, templateFile, Others>>

ExportStart ==
    /\ exports = [e \in Exps |-> ExportIdle]
    /\ browsers = <<>>
    /\ templateFile \in BOOLEAN

(***************************************************************************)
(* The form (WorksheetMaker). A handler runs to its first await or to its  *)
(* end in one step; what follows an await is a step of its own. The        *)
(* generate request of the form is served by slot "r1" of the endpoint.    *)
(***************************************************************************)
\* What the form leaves alone: the state of the two endpoints.
Backend == <<limiterVars, validateVars, promptVars, generateVars, exportVars>>

\* part_000:41-60
defaultInputs ==
    [ curriculum |-> Str("Australian Curriculum v9.0"), subject |-> Str("Mathematics"),
      grade |-> Str("Year 5"), topic |-> Str("Fractions"),
      objectives |-> Arr(<<Str("Understand equivalent fractions"),
                           Str("Add and subtract fractions with same denominator")>>),
      duration |-> Str("45 minutes"),
      support_level_desc |-> Str("Visual aids, sentence starters, worked examples"),
      core_level_desc |-> Str("Standard difficulty with some scaffolding"),
      extension_level_desc |-> Str("Complex reasoning and application tasks"),
      n_support |-> Whole(4), n_core |-> Whole(6), n_extension |-> Whole(3),
      constraints |-> Str("Reading age 10-11, some EAL students"),
      materials |-> Str("Fraction strips, calculator"),
      include_teacher_notes |-> Bool(TRUE), include_rubric |-> Bool(TRUE),
      page_size |-> Str("A4"), max_pages |-> Whole(4) ]

RequiredFields == <<"curriculum", "subject", "grade", "topic", "duration">>
CountFields == <<"n_support", "n_core", "n_extension", "max_pages">>

RequiredMessage(key) ==
    CASE key = "curriculum" -> "Curriculum is required."
      [] key = "subject"    -> "Subject is required."
      [] key = "grade"      -> "Grade/Year is required."
      [] key = "topic"      -> "Topic is required."
      [] key = "duration"   -> "Duration is required."

CountMax(key) == IF key = "n_core" THEN 15 ELSE 10

CountMessage(key) ==
    CASE key = "n_support"   -> "Support questions must be between 1 and 10."
      [] key = "n_core"      -> "Core questions must be between 1 and 15."
      [] key = "n_extension" -> "Extension questions must be between 1 and 10."
      [] key = "max_pages"   -> "Max pages must be between 1 and 10."

\* !value, for the strings of the text inputs
Falsy(value) == value.t = "string" /\ value.v = ""

\* value < 1 || value > max, on a number in halves
OutOfRange(value, max) == value.t = "number" /\ (value.v < 2 * 1 \/ value.v > 2 * max)

InSeq(s, x) == \E i \in DOMAIN s : s[i] = x

\* The error of one field, '' when it has none.
FieldError(key, value) ==
    IF InSeq(RequiredFields, key) /\ Falsy(value) THEN RequiredMessage(key)
    ELSE IF InSeq(CountFields, key) /\ OutOfRange(value, CountMax(key)) THEN CountMessage(key)
    ELSE ""

\* validateInput: setErrors(prev => ({...prev, [key]: error}))
validateInput(errors, key, value) ==
    [k \in DOMAIN errors \cup {key} |-> IF k = key THEN FieldError(key, value) ELSE errors[k]]

\* validateAll: the new errors map and whether every checked field is valid
validateAll(inputs) ==
    LET checked == {RequiredFields[i] : i \in DOMAIN RequiredFields}
                       \cup {CountFields[i] : i \in DOMAIN CountFields}
        failing == {k \in checked : FieldError(k, inputs[k]) # ""}
    IN  [valid |-> failing = {},
         errors |-> [k \in failing |-> FieldError(k, inputs[k])]]

\* What is typed into a field: a text field takes the text, a count field
\* parseInt(text) || 1.
Typed == { <<"topic", "">>, <<"topic", "Fractions">>, <<"n_core", "16">>, <<"n_core", "">> }

parseIntOr1(text) ==
    CASE text = "16" -> 16
      [] text = "6"  -> 6
      [] text = ""   -> 1

InputValue(key, text) ==
    IF InSeq(CountFields, key) THEN Whole(parseIntOr1(text)) ELSE Str(text)

\* text.split(/\s+/).length
WordCount(text) ==
    CASE text = "# Math \\u2014 Fractions (Grade 5)" -> 6
      [] OTHER -> 1

\* Math.ceil(wordCount / 500)
estimatePages(text) == (WordCount(text) + 499) \div 500

Toast(title, description) == [title |-> title, description |-> description]
NoToast == Toast("", "")

\* Which of the substrings the form searches a message for it holds.
FormMarkers(message) ==
    CASE message = "Google AI API key is not configured or invalid. Please check your GOOGLE_GENERATIVE_AI_API_KEY environment variable."
            -> {"API key"}
      [] message = "API quota exceeded. Please try again later." -> {"quota"}
      [] message = "Content was blocked by safety filters. Please try different inputs."
            -> {"safety"}
      [] OTHER -> {}

\* The catch block of generateWorksheet, for an Error with the message.
GenerationFailed(message) ==
    Toast("Generation failed",
          IF "API key" \in FormMarkers(message)
          THEN "Google AI API key is not configured. Please check your environment variables."
          ELSE IF "quota" \in FormMarkers(message)
          THEN "API quota exceeded. Please try again later."
          ELSE IF "safety" \in FormMarkers(message)
          THEN "Content was blocked by safety filters. Please try different inputs."
          ELSE message)

ExportFailed == Toast("Export failed", "Please try again.")

\* The address the form's requests come from.
FormAddress == "203.0.113.7"

\* What generateText throws at the form's request.
FormFailures == {ErrorWith({"safety"}), NonError}

\* The statuses the export endpoint answers with.
ExportStatuses == {200, 400, 500}

NoFormCall == [pc |-> "idle", body |-> Null, response |-> NoResponse, outcome |-> "none"]
NoExportCall == [pc |-> "idle", outcome |-> "none"]

\* updateInput(key, value) of an input's onChange
updateInput(key, text) ==
    LET value == InputValue(key, text) IN
    /\ ui' = [ui EXCEPT !.inputs = [@ EXCEPT ![key] = value],
                        !.errors = validateInput(@, key, value)]
    /\ UNCHANGED <<rendered, edits, calls, toast, Backend>>

\* Mutant: the flag is not set back when the request failed.
GenerateSettledNoFinally(outcome, message) ==
    /\ ui' = ui
    /\ toast' = GenerationFailed(message)
    /\ calls' = [calls EXCEPT !.gen = [NoFormCall EXCEPT !.outcome = outcome]]

\* catch and finally of generateWorksheet
GenerateSettled(outcome, message) ==
    /\ ui' = [ui EXCEPT !.isGenerating = FALSE]
    /\ toast' = GenerationFailed(message)
    /\ calls' = [calls EXCEPT !.gen = [NoFormCall EXCEPT !.outcome = outcome]]

\* Mutant: the second version of the form, which sends without validating.
generateWorksheetUnvalidated ==
    /\ ~ui.isGenerating
    /\ calls.gen.pc = "idle"
    /\ ui' = [ui EXCEPT !.isGenerating = TRUE]
    /\ calls' = [calls EXCEPT !.gen = [NoFormCall EXCEPT !.pc = "fetch", !.body = ui.inputs]]
    /\ UNCHANGED <<toast, rendered, edits, Backend>>

\* generateWorksheet, up to `await fetch`; the button is disabled while
\* isGenerating
generateWorksheet ==
    /\ ~ui.isGenerating
    /\ calls.gen.pc = "idle"
    /\ IF ~validateAll(ui.inputs).valid
       THEN /\ ui' = [ui EXCEPT !.errors = validateAll(ui.inputs).errors]
            /\ toast' = Toast("Invalid input",
                              "Please fix the errors in the form before generating.")
            /\ calls' = [calls EXCEPT !.gen.outcome = "invalid"]
       ELSE /\ ui' = [ui EXCEPT !.errors = validateAll(ui.inputs).errors,
                                !.isGenerating = TRUE]
            /\ calls' = [calls EXCEPT !.gen =
                            [NoFormCall EXCEPT !.pc = "fetch", !.body = ui.inputs]]
            /\ UNCHANGED toast
    /\ UNCHANGED <<rendered, edits, Backend>>

\* The request reaches the endpoint.
FormArrive ==
    /\ calls.gen.pc = "fetch"
    /\ Arrive("r1", FormAddress)

\* The endpoint reads the body the form sent.
FormBodyArrives ==
    /\ calls.gen.pc = "fetch"
    /\ BodyArrives("r1", calls.gen.body)

\* fetch resolves with the endpoint's response
FetchResolves ==
    /\ calls.gen.pc = "fetch"
    /\ reqs["r1"].pc = "done"
    /\ wire.req = "r1"
    /\ calls' = [calls EXCEPT !.gen.pc = "json", !.gen.response = wire.response]
    /\ reqs' = [reqs EXCEPT !["r1"] = Idle]
    /\ wire' = NoWire
    /\ UNCHANGED <<ui, toast, rendered, edits, limiterVars, apiKey, validateVars,
                   promptVars, exportVars>>

\* fetch rejects: the request never reached the endpoint, or its response
\* was lost
FetchRejects ==
    /\ calls.gen.pc = "fetch"
    /\ reqs["r1"].pc \in {"idle", "done"}
    /\ GenerateSettled("throws", "Failed to fetch")
    /\ reqs' = [reqs EXCEPT !["r1"] = Idle]
    /\ wire' = IF wire.req = "r1" THEN NoWire ELSE wire
    /\ UNCHANGED <<rendered, edits, limiterVars, apiKey, validateVars, promptVars,
                   exportVars>>

\* response.json() resolves: the rest of the try block, catch and finally
JsonResolves ==
    LET data == calls.gen.response IN
    /\ calls.gen.pc = "json"
    /\ IF data.status # 200
       THEN GenerateSettled("status",
                IF data.message # "" THEN data.message ELSE "Failed to generate worksheet")
       ELSE /\ ui' = [ui EXCEPT !.markdown = data.markdown,
                                !.estimatedPages = estimatePages(data.markdown),
                                !.isGenerating = FALSE]
            /\ toast' = Toast("Worksheet generated!",
                              "Your worksheet is ready for preview and export.")
            /\ calls' = [calls EXCEPT !.gen = [NoFormCall EXCEPT !.outcome = "success"]]
    /\ UNCHANGED <<rendered, edits, Backend>>

\* response.json() rejects
JsonRejects ==
    /\ calls.gen.pc = "json"
    /\ GenerateSettled("throws", "Failed to fetch")
    /\ UNCHANGED <<rendered, edits, Backend>>

\* catch and finally of exportPDF
ExportSettled(outcome) ==
    /\ ui' = [ui EXCEPT !.isExporting = FALSE]
    /\ toast' = ExportFailed
    /\ calls' = [calls EXCEPT !.exp = [NoExportCall EXCEPT !.outcome = outcome]]

\* exportPDF, up to `await fetch`; the button is there once there is
\* markdown and is disabled while isExporting
ExportClicked ==
    /\ ui.markdown # ""
    /\ ~ui.isExporting
    /\ calls.exp.pc = "idle"
    /\ ui' = [ui EXCEPT !.isExporting = TRUE]
    /\ calls' = [calls EXCEPT !.exp = [NoExportCall EXCEPT !.pc = "fetch"]]
    /\ UNCHANGED <<toast, rendered, edits, Backend>>

\* fetch resolves with a status of the export endpoint
ExportFetchResolves(status) ==
    /\ calls.exp.pc = "fetch"
    /\ IF status # 200
       THEN ExportSettled("status")
       ELSE /\ calls' = [calls EXCEPT !.exp.pc = "blob"]
            /\ UNCHANGED <<ui, toast>>
    /\ UNCHANGED <<rendered, edits, Backend>>

\* fetch rejects
ExportFetchRejects ==
    /\ calls.exp.pc = "fetch"
    /\ ExportSettled("throws")
    /\ UNCHANGED <<rendered, edits, Backend>>

\* response.blob() resolves: the file is downloaded
BlobResolves ==
    /\ calls.exp.pc = "blob"
    /\ ui' = [ui EXCEPT !.isExporting = FALSE]
    /\ toast' = Toast("PDF exported!", "PDF file saved to your device.")
    /\ calls' = [calls EXCEPT !.exp = [NoExportCall EXCEPT !.outcome = "success"]]
    /\ UNCHANGED <<rendered, edits, Backend>>

\* response.blob() rejects
BlobRejects ==
    /\ calls.exp.pc = "blob"
    /\ ExportSettled("throws")
    /\ UNCHANGED <<rendered, edits, Backend>>

(***************************************************************************)
(* The objectives of the form. A handler reads the objectives of the       *)
(* render it was created in and queues an update, which React applies to   *)
(* the latest state; the next render hands the handlers the state so far.  *)
(***************************************************************************)
ObjectiveTexts == {"", "Compare fractions"}

SetObjectives(list) == ui' = [ui EXCEPT !.inputs.objectives = Arr(list)]

Without(list, index) ==
    [i \in 1..(Len(list) - 1) |-> IF i < index THEN list[i] ELSE list[i + 1]]

\* What the operations mean one after the other, each on the list the one
\* before it left.
Edited(op, index, text) ==
    LET list == edits.intended IN
    edits' = [ intended |->
                 CASE op = "update" ->
                        IF index <= Len(list) THEN [list EXCEPT ![index] = Str(text)]
                        ELSE list
                   [] op = "add" -> IF Len(list) < 3 THEN Append(list, Str("")) ELSE list
                   [] op = "remove" ->
                        IF Len(list) > 1 /\ index <= Len(list) THEN Without(list, index)
                        ELSE list,
               pending |-> edits.pending + 1 ]

\* updateObjective(index, value), of the input of a rendered objective
updateObjective(index, text) ==
    /\ edits.pending < MaxPending
    /\ index \in 1..Len(rendered)
    /\ SetObjectives([rendered EXCEPT ![index] = Str(text)])
    /\ Edited("update", index, text)
    /\ UNCHANGED <<rendered, calls, toast, Backend>>

\* addObjective
addObjective ==
    /\ edits.pending < MaxPending
    /\ IF Len(rendered) < 3
       THEN SetObjectives(Append(ui.inputs.objectives.v, Str("")))
       ELSE UNCHANGED ui
    /\ Edited("add", 0, "")
    /\ UNCHANGED <<rendered, calls, toast, Backend>>

\* removeObjective(index), of the button of a rendered objective
removeObjective(index) ==
    /\ edits.pending < MaxPending
    /\ index \in 1..Len(rendered)
    /\ IF Len(rendered) > 1
       THEN SetObjectives(Without(rendered, index))
       ELSE UNCHANGED ui
    /\ Edited("remove", index, "")
    /\ UNCHANGED <<rendered, calls, toast, Backend>>

\* React renders: the handlers now read the state so far.
Render ==
    /\ edits.pending > 0
    /\ rendered' = ui.inputs.objectives.v
    /\ edits' = [edits EXCEPT !.pending = 0]
    /\ UNCHANGED <<ui, calls, toast, Backend>>

\* part_000:61-67: the state hooks
FormStart ==
    /\ ui = [inputs |-> defaultInputs, markdown |-> "", isGenerating |-> FALSE,
             isExporting |-> FALSE, estimatedPages |-> 0, errors |-> <<>>]
    /\ rendered = defaultInputs.objectives.v
    /\ edits = [intended |-> defaultInputs.objectives.v, pending |-> 0]
    /\ calls = [gen |-> NoFormCall, exp |-> NoExportCall]
    /\ toast = NoToast

FormQuiet == FormStart

(***************************************************************************)
(* Specifications.                                                         *)
(***************************************************************************)
ValidateQuiet == body = BasePayload /\ parsed = NotParsed /\ response = NoResponse
PromptQuiet == lessonRequest = BasePayload /\ prompt = <<>>
GenerateQuiet == reqs = [r \in Reqs |-> Idle] /\ apiKey = TRUE /\ wire = NoWire

Init == LimiterStart /\ ValidateQuiet /\ PromptQuiet /\ GenerateStart /\ ExportQuiet /\ FormQuiet

\* The requests of set R, meeting the failures of set F.
GenerateNext(R, F) ==
    \/ \E r \in R, ip \in Ips : Arrive(r, ip)
    \/ \E r \in R, error \in F : BodyMalformed(r, error)
    \/ \E r \in R, payload \in Bodies : BodyArrives(r, payload)
    \/ \E r \in R, text \in Texts : AIReturns(r, text)
    \/ \E r \in R, error \in F : AIFails(r, error)
    \/ \E r \in R : Finish(r)
    \/ WindowPasses

\* Concurrent requests.
Next == GenerateNext(Reqs, Failures)

Spec == Init /\ [][Next]_vars

\* One request at a time, meeting every failure.
RequestNext == GenerateNext({"r1"}, Thrown)

SpecRequest == Init /\ [][RequestNext]_vars

LimiterInit == LimiterStart /\ ValidateQuiet /\ PromptQuiet /\ GenerateQuiet /\ ExportQuiet /\ FormQuiet

LimiterNext ==
    \/ \E key \in Keys : Call(key)
    \/ \E d \in TickSteps : Tick(d) /\ UNCHANGED <<validateVars, promptVars, exportVars, formVars, generateVars>>
    \/ \E key \in Keys : Observe(key)

SpecLimiter == LimiterInit /\ [][LimiterNext]_vars

ValidateInit == LimiterStart /\ ValidateStart /\ PromptQuiet /\ GenerateQuiet /\ ExportQuiet /\ FormQuiet

SpecValidate == ValidateInit /\ [][Validate]_vars

PromptInit == LimiterStart /\ ValidateQuiet /\ PromptStart /\ GenerateQuiet /\ ExportQuiet /\ FormQuiet

SpecPrompt == PromptInit /\ [][Assemble]_vars

ExportInit ==
    LimiterStart /\ ValidateQuiet /\ PromptQuiet /\ GenerateStart /\ ExportStart /\ FormQuiet

\* The export requests of set E, carrying the bodies of set B and meeting the
\* failures of set F.
ExportNextOf(E, B, F) ==
    \/ \E e \in E, payload \in B : ExportArrive(e, payload)
    \/ \E e \in E, error \in F : ExportJsonFails(e, error)
    \/ \E e \in E : ExportJson(e)
    \/ \E e \in E, html \in Htmls : ExportAIReturns(e, html)
    \/ \E e \in E, error \in F : ExportAIFails(e, error)
    \/ \E e \in E : LaunchReturns(e)
    \/ \E e \in E, error \in F : LaunchFails(e, error)
    \/ \E e \in E : PageStepReturns(e)
    \/ \E e \in E, error \in F : PageStepFails(e, error)
    \/ \E e \in E, length \in PdfLengths : PdfReturns(e, length)
    \/ \E e \in E, error \in F : PdfFails(e, error)
    \/ \E e \in E : CloseReturns(e)
    \/ \E e \in E, error \in F, gone \in BOOLEAN : CloseFails(e, error, gone)
    \/ \E e \in E : ExportFinish(e)

ExportNext == ExportNextOf(Exps, ExportBodies \cup {NotJson}, ExportFailures)

SpecExport == ExportInit /\ [][ExportNext]_vars

\* Both endpoints serving: generate requests of one client that sends no
\* address, beside two export requests with template data.
ServiceBodies ==
    { ExportBody(TemplateData(Absent), Absent, Str("Letter"), Str("doc")), NotJson }

ServiceNext ==
    \/ Arrive("r1", NoIp)
    \/ BodyMalformed("r1", NonError)
    \/ \E payload \in Bodies : BodyArrives("r1", payload)
    \/ \E text \in Texts : AIReturns("r1", text)
    \/ AIFails("r1", NonError)
    \/ Finish("r1")
    \/ ExportNextOf(Exps, ServiceBodies, {ThrownValue})

SpecService == ExportInit /\ [][ServiceNext]_vars

\* The form with the generate endpoint behind it.
FormInit ==
    LimiterStart /\ ValidateQuiet /\ PromptQuiet /\ GenerateStart /\ ExportQuiet /\ FormStart

\* What the network, the endpoint and the event loop do for a generate call.
GenerateSettles ==
    \/ FormArrive
    \/ FormBodyArrives
    \/ \E text \in Texts : AIReturns("r1", text)
    \/ \E error \in FormFailures : AIFails("r1", error)
    \/ FetchResolves
    \/ JsonResolves

\* The same for an export call.
ExportSettles ==
    \/ \E status \in ExportStatuses : ExportFetchResolves(status)
    \/ BlobResolves

FormNext ==
    \/ \E typed \in Typed : updateInput(typed[1], typed[2])
    \/ generateWorksheet
    \/ GenerateSettles
    \/ FetchRejects
    \/ JsonRejects
    \/ ExportClicked
    \/ ExportSettles
    \/ ExportFetchRejects
    \/ BlobRejects

SpecForm == FormInit /\ [][FormNext]_vars

\* Every fetch settles, the endpoint answers every request it received, and
\* the event loop runs what follows a settled await.
SpecFormFair == SpecForm /\ WF_vars(GenerateSettles) /\ WF_vars(ExportSettles)

\* The objectives being edited.
ObjectivesNext ==
    \/ \E index \in 1..3, text \in ObjectiveTexts : updateObjective(index, text)
    \/ addObjective
    \/ \E index \in 1..3 : removeObjective(index)
    \/ Render

SpecObjectives == FormInit /\ [][ObjectivesNext]_vars

(***************************************************************************)
(* Claims about the rate limiter.                                          *)
(***************************************************************************)
C1_Step ==
    \A k \in Keys :
        (lastCall' # lastCall /\ lastCall'.key = k /\ k \in DOMAIN admitWindow) =>
            /\ (InWindow(admitWindow[k], now) /\ admitWindow[k].admits >= maxRequests
                    => ~lastCall'.allowed)
            /\ (~InWindow(admitWindow[k], now)
                    => /\ lastCall'.allowed
                       /\ lastCall'.count = 1
                       /\ rateLimitMap'[k].count = 1)

\* C1: once 10 calls for a key have been admitted within one window, a further
\* call for it within that window is rejected; a call after the window has
\* elapsed is admitted and the counter restarts at 1.
C1_RateLimitWindow == [][C1_Step]_vars

\* The 11th call of a window has just been rejected.
C1_Witness ==
    /\ lastCall.key \in DOMAIN admitWindow
    /\ ~lastCall.allowed
    /\ lastCall.at = now
    /\ admitWindow[lastCall.key].admits = maxRequests

\* C2: under any interleaving of concurrent requests the stored count of a key
\* is between 1 and 10, equals the number of calls admitted in its window (no
\* update is lost), and that number never exceeds 10.
C2_AtomicCount ==
    \A k \in DOMAIN rateLimitMap :
        /\ rateLimitMap[k].count \in 1..maxRequests
        /\ k \in DOMAIN admitWindow
        /\ admitWindow[k].admits <= maxRequests
        /\ rateLimitMap[k].count = admitWindow[k].admits

\* Two requests of one client are in flight together, the second admitted as
\* the 10th of the window.
C2_Witness ==
    /\ reqs["r1"].pc = "awaitAI"
    /\ reqs["r2"].pc = "awaitBody"
    /\ reqs["r1"].ip = reqs["r2"].ip
    /\ rateLimitMap[reqs["r1"].ip].count = maxRequests

\* C3: for one client and any timing of its calls, no more than 10 calls are
\* admitted within any span of 60 seconds.
C3_AnySixtySeconds == span.n <= maxRequests

(***************************************************************************)
(* Claims about the responses of the generate endpoint.                    *)
(***************************************************************************)
StatusByOutcome(w) ==
    LET st == w.response.status
        e == w.error
    IN  /\ st \in {200, 400, 401, 429, 500}
        /\ (w.stage = "limiter" => st = 429)
        /\ (w.stage = "generateText" /\ e = NoError
                => st = 200 /\ w.response.markdown \in Texts)
        /\ (e.type = "ZodError"
                => st = 400 /\ e.issues # <<>> /\ w.response.errors = e.issues)
        /\ (w.stage = "credential" => st = 401)
        /\ (e.type = "Error" /\ e.message = {"API key"} => st = 401)
        /\ (e.type = "Error" /\ e.message # {} /\ e.message \subseteq {"quota", "limit"}
                => st = 429)
        /\ (e.type = "Error" /\ e.message # {} /\ e.message \subseteq {"safety", "blocked"}
                => st = 400)
        /\ ((e.type = "Error" /\ e.message = {}) \/ e.type = "thrown value"
                => st = 500)

\* C4: every generate request ends with exactly one response, whose status is
\* 200, 400, 401, 429 or 500 by the kind of outcome: success 200 with the
\* markdown, a validation failure 400 with the issues, a limiter rejection or
\* a quota/limit failure 429, a credential failure 401, a safety block 400,
\* any other failure 500; no request is left with an uncaught exception.
C4_OneResponseByOutcome ==
    \A r \in Reqs :
        /\ reqs[r].pc \in {"idle", "awaitBody", "awaitAI", "done"}
        /\ reqs[r].sent = (IF reqs[r].pc = "done" THEN 1 ELSE 0)
        /\ (reqs[r].pc = "done" => wire.req = r /\ StatusByOutcome(wire))

\* generateText failed with a safety block and the request was answered 400.
C4_Witness ==
    /\ reqs["r1"].pc = "done"
    /\ wire.stage = "generateText"
    /\ wire.error = ErrorWith({"safety"})
    /\ wire.response.status = 400

(***************************************************************************)
(* Claims about the validator. The constraints are those of the data       *)
(* model; a number lies inside a range when it is between its ends.        *)
(***************************************************************************)
NonEmptyText(x) == x.t = "string" /\ x.v # ""
IsText(x) == x.t = "string"
TextList(x, lo, hi) ==
    /\ x.t = "array"
    /\ lo <= Len(x.v) /\ Len(x.v) <= hi
    /\ \A i \in 1..Len(x.v) : IsText(x.v[i])
InsideRange(x, lo, hi) == x.t = "number" /\ 2 * lo <= x.v /\ x.v <= 2 * hi
IsFlag(x) == x.t = "boolean"

FieldConstraint(field, x) ==
    CASE field \in {"curriculum", "subject", "grade", "topic", "duration",
                    "support_level_desc", "core_level_desc", "extension_level_desc"}
            -> NonEmptyText(x)
      [] field \in {"constraints", "materials"} -> IsText(x)
      [] field = "objectives" -> TextList(x, 1, 3)
      [] field \in {"n_support", "n_extension", "max_pages"} -> InsideRange(x, 1, 10)
      [] field = "n_core" -> InsideRange(x, 1, 15)
      [] field \in {"include_teacher_notes", "include_rubric"} -> IsFlag(x)
      [] field = "page_size" -> x \in {Str("A4"), Str("Letter")}

ViolatedFields(payload) == {f \in FieldNames : ~FieldConstraint(f, payload[f])}

NamedFields(issues) == {issues[i].path : i \in 1..Len(issues)}

\* C5: the validator accepts a payload exactly when every field constraint
\* holds; n_core = 1 and n_core = 15 are accepted, n_core = 0 and n_core = 16
\* are rejected with an issue naming n_core.
C5_AcceptsIffConstraints ==
    parsed.done =>
        /\ (parsed.issues = <<>>) <=> (ViolatedFields(body) = {})
        /\ (body.n_core \in {Whole(1), Whole(15)}
                => "n_core" \notin NamedFields(parsed.issues))
        /\ (body.n_core \in {Whole(0), Whole(16)}
                => "n_core" \in NamedFields(parsed.issues))

\* The scenario request with n_core = 15 (and nothing else changed) was
\* accepted.
C5_Witness ==
    /\ parsed.done
    /\ body = [BasePayload EXCEPT !.n_core = Whole(15)]
    /\ parsed.issues = <<>>

\* C6: the 400 response to a payload that violates the constraints of several
\* fields names every violated field: the fields named in its error list are
\* exactly the fields whose constraint is violated.
C6_EveryViolatedFieldNamed ==
    parsed.done =>
        /\ (ViolatedFields(body) # {} => response.status = 400)
        /\ (response.status = 400
                => NamedFields(response.errors) = ViolatedFields(body))

\* A payload with two violated fields was answered 400.
C6_Witness ==
    /\ parsed.done
    /\ response.status = 400
    /\ Cardinality(ViolatedFields(body)) >= 2

(***************************************************************************)
(* Claims about the prompt.                                                *)
(***************************************************************************)
\* The first line equal to `line`, 0 when there is none.
LineOf(lines, line) ==
    IF \E i \in 1..Len(lines) : lines[i] = line
    THEN CHOOSE i \in 1..Len(lines) :
            lines[i] = line /\ \A j \in 1..(i - 1) : lines[j] # line
    ELSE 0

\* The lines of the section under `heading`, up to the next horizontal rule.
SectionOf(lines, heading) ==
    LET from == LineOf(lines, heading)
        rules == {j \in (from + 1)..Len(lines) : lines[j] = "---"}
        to == IF rules = {} THEN Len(lines) + 1
              ELSE CHOOSE j \in rules : \A k \in rules : j <= k
    IN  IF from = 0 THEN <<>> ELSE SubSeq(lines, from + 1, to - 1)

\* A numbered-question placeholder: `<number>) ...`
QuestionPlaceholders == {ToString(k) \o ") ..." : k \in 1..20}

Placeholders(lines) ==
    Cardinality({i \in 1..Len(lines) : lines[i] \in QuestionPlaceholders})

\* Whether `part` occurs in `lines` as consecutive lines.
Occurs(part, lines) ==
    \E i \in 0..(Len(lines) - Len(part)) :
        \A j \in 1..Len(part) : lines[i + j] = part[j]

\* C7 as stated: the prompt holds exactly n_support + n_core + n_extension
\* numbered-question placeholders, n_support of them in the Support section,
\* n_core in Core and n_extension in Extension.
C7_PlaceholdersMatchCounts ==
    prompt # <<>> =>
        /\ 2 * Placeholders(SectionOf(prompt, "## SUPPORT")) = lessonRequest.n_support.v
        /\ 2 * Placeholders(SectionOf(prompt, "## CORE")) = lessonRequest.n_core.v
        /\ 2 * Placeholders(SectionOf(prompt, "## EXTENSION")) = lessonRequest.n_extension.v
        /\ 2 * Placeholders(prompt) =
              lessonRequest.n_support.v + lessonRequest.n_core.v
              + lessonRequest.n_extension.v

TierSchematic(section, n) ==
    /\ Occurs(<<"### Questions (" \o NumText(n.v) \o " items)",
                "1) ...", "2) ...", "...">>, section)
    /\ Placeholders(section) = 2

\* C7 as amended: each tier's section states the requested count in its
\* `### Questions (n items)` heading, followed by a fixed schematic of two
\* numbered placeholders and an ellipsis line, six placeholders in all,
\* whatever the counts.
C7_TierHeadingsCarryCounts ==
    prompt # <<>> =>
        /\ TierSchematic(SectionOf(prompt, "## SUPPORT"), lessonRequest.n_support)
        /\ TierSchematic(SectionOf(prompt, "## CORE"), lessonRequest.n_core)
        /\ TierSchematic(SectionOf(prompt, "## EXTENSION"), lessonRequest.n_extension)
        /\ Placeholders(prompt) = 6

\* A prompt was assembled for 10 support and 15 core questions.
C7_Witness ==
    /\ prompt # <<>>
    /\ lessonRequest.n_support = Whole(10)
    /\ lessonRequest.n_core = Whole(15)

HasLine(lines, line) == LineOf(lines, line) # 0

\* C8: the Rubric section is in the prompt exactly when include_rubric is
\* true and the Teacher Notes section exactly when include_teacher_notes is
\* true, each independently of the other flag.
C8_OptionalSections ==
    prompt # <<>> =>
        /\ IF lessonRequest.include_rubric.v
           THEN Occurs(RubricSection, prompt)
           ELSE ~HasLine(prompt, "## QUICK RUBRIC (4 levels)")
        /\ IF lessonRequest.include_teacher_notes.v
           THEN Occurs(TeacherNotesSection, prompt)
           ELSE ~HasLine(prompt, "## TEACHER NOTES (not for students)")

\* A prompt was assembled with the rubric and without the teacher notes.
C8_Witness ==
    /\ prompt # <<>>
    /\ lessonRequest.include_rubric = Bool(TRUE)
    /\ lessonRequest.include_teacher_notes = Bool(FALSE)

(***************************************************************************)
(* Claims about the export endpoint.                                       *)
(***************************************************************************)
\* C9: an export request that has acquired a browser has closed it by the
\* time the request ends, on every exit path.
C9_BrowserReleased ==
    \A e \in Exps :
        (exports[e].pc = "done" /\ exports[e].browser # 0)
            => ~browsers[exports[e].browser].open

\* The body carries non-empty markdown and no templateData.
MarkdownBody(b) ==
    /\ b.t = "object"
    /\ Member(b, "markdown").t = "string"
    /\ Member(b, "markdown").v # ""
    /\ ~Truthy(Member(b, "templateData"))

\* C10: an export request whose body is {markdown, pageSize, filename} with
\* non-empty markdown, none of whose collaborators fails, is answered 200 with
\* Content-Type application/pdf, a Content-Disposition holding <filename>.pdf
\* and a PDF that is not empty.
C10_MarkdownExported ==
    \A e \in Exps :
        (exports[e].pc = "done" /\ MarkdownBody(exports[e].body)
            /\ exports[e].error = NoFailure)
            => /\ exports[e].response.status = 200
               /\ exports[e].response.contentType = "application/pdf"
               /\ exports[e].response.disposition =
                      "attachment; filename=\""
                          \o Text(Member(exports[e].body, "filename")) \o ".pdf\""
               /\ exports[e].response.pdf.length > 0

\* The body is a JSON object with neither markdown nor templateData in it.
NoContent(b) ==
    /\ b.t = "object"
    /\ Member(b, "markdown").t \in {"undefined", "null"}
    /\ Member(b, "templateData").t \in {"undefined", "null"}

\* C11: an export request that carries neither markdown nor templateData is
\* answered 400, and for it the template file is not read, the Generation
\* Client is not called and no browser is launched.
C11_NoContentRejected ==
    \A e \in Exps :
        NoContent(exports[e].body) =>
            /\ exports[e].pc \in {"awaitJson", "done"}
            /\ exports[e].reads = 0
            /\ exports[e].aiCalls = 0
            /\ exports[e].launches = 0
            /\ exports[e].browser = 0
            /\ (exports[e].pc = "done" =>
                    /\ exports[e].response.status = 400
                    /\ exports[e].response.message = "Template data is required")

\* A request with only pageSize and filename was answered.
C11_Witness ==
    /\ exports["e1"].pc = "done"
    /\ exports["e1"].body = ExportBody(Absent, Absent, Str("A4"), Str("doc"))
    /\ exports["e1"].response.status = 400

\* templateData is there and its debug member is truthy: none of false, 0,
\* "", null and undefined.
DebugOn(b) ==
    LET d == Member(Member(b, "templateData"), "debug") IN
    /\ d.t \notin {"undefined", "null"}
    /\ (d.t = "boolean" => d.v)
    /\ (d.t = "number" => d.v # 0)
    /\ (d.t = "string" => d.v # "")

HasTemplateData(b) == b.t = "object" /\ Member(b, "templateData").t = "object"

\* C12: a request whose templateData.debug is truthy never launches a browser
\* and, when nothing fails, is answered 200 with {html} holding the HTML the
\* Generation Client rendered; a request whose templateData.debug is falsy is
\* never answered with html: it goes on to the PDF pipeline, launching a
\* browser, and when nothing fails is answered with the PDF.
C12_DebugStopsBeforeRender ==
    \A e \in Exps :
        HasTemplateData(exports[e].body) =>
            IF DebugOn(exports[e].body)
            THEN /\ exports[e].pc \in {"awaitJson", "generateContent", "done"}
                 /\ exports[e].launches = 0
                 /\ exports[e].browser = 0
                 /\ (exports[e].pc = "done" /\ exports[e].error = NoFailure =>
                        /\ exports[e].response.status = 200
                        /\ exports[e].response.contentType = "application/json"
                        /\ exports[e].response.html \in Htmls
                        /\ exports[e].response.html = exports[e].html
                        /\ exports[e].response.pdf = NoPdf)
            ELSE /\ exports[e].response.html = ""
                 /\ (exports[e].pc = "done" /\ exports[e].error = NoFailure =>
                        /\ exports[e].launches = 1
                        /\ exports[e].browser # 0
                        /\ exports[e].response.status = 200
                        /\ exports[e].response.contentType = "application/pdf")

\* A request with debug: "yes" was answered with the HTML.
C12_Witness ==
    /\ exports["e1"].pc = "done"
    /\ exports["e1"].body = ExportBody(TemplateData(Str("yes")), Absent, Absent, Str(""))
    /\ exports["e1"].response.status = 200
    /\ exports["e1"].response.html # ""

(***************************************************************************)
(* Claims about the course of a generate request.                          *)
(***************************************************************************)
\* C13: with the credential absent the process starts and serves; every
\* generate request that passed the limiter and the validator is answered 401
\* without the Generation Client being called, the first such request and
\* the later ones alike.
C13_MissingCredential ==
    ~apiKey =>
        \A r \in Reqs :
            /\ reqs[r].pc # "awaitAI"
            /\ reqs[r].aiCalls = 0
            /\ (reqs[r].pc = "done" /\ reqs[r].parses = 1
                    /\ wire.error.type # "ZodError" =>
                    /\ wire.req = r
                    /\ wire.response.status = 401
                    /\ wire.response.message =
                        "Google AI API key is not configured or invalid. Please check your GOOGLE_GENERATIVE_AI_API_KEY environment variable.")

\* The third request admitted in a window was answered 401 for the missing
\* credential.
C13_Witness ==
    /\ ~apiKey
    /\ reqs["r1"].pc = "done"
    /\ reqs["r1"].parses = 1
    /\ wire.response.status = 401
    /\ rateLimitMap[reqs["r1"].ip].count = 3

C14_Once ==
    /\ \A r \in Reqs :
        /\ reqs[r].aiCalls <= 1
        /\ (reqs[r].pc = "done" /\ wire.req = r /\ wire.stage = "generateText"
                /\ wire.error # NoError =>
                /\ reqs[r].aiCalls = 1
                /\ wire.response.status \in {400, 401, 429, 500})
    /\ \A e \in Exps :
        /\ exports[e].aiCalls <= 1
        /\ exports[e].launches <= 1
        /\ (exports[e].browser # 0 =>
                /\ exports[e].launches = 1
                /\ browsers[exports[e].browser].owner = e
                /\ \A o \in Exps \ {e} : exports[o].browser # exports[e].browser)
        /\ (exports[e].pc = "done" /\ exports[e].error # NoFailure =>
                exports[e].response.status = 500)

C14_Step ==
    /\ \A r \in Reqs :
        (reqs[r].pc = "awaitAI" /\ reqs'[r] # reqs[r]) =>
            /\ reqs'[r].pc = "done"
            /\ reqs'[r].aiCalls = reqs[r].aiCalls
    /\ \A e \in Exps :
        /\ (exports[e].pc \notin {"idle", "done"} /\ exports'[e].error # NoFailure =>
                /\ exports'[e].pc = "done"
                /\ exports'[e].aiCalls = exports[e].aiCalls
                /\ exports'[e].launches = exports[e].launches)
        /\ (exports'[e].browser # exports[e].browser /\ exports'[e].browser # 0 =>
                /\ exports'[e].browser = Len(browsers) + 1
                /\ Len(browsers') = Len(browsers) + 1)

\* C14: nothing is retried. A generate request calls the Generation Client
\* at most once and an export request calls it at most once and launches at
\* most one browser, a new one that no other request uses; the step after a
\* failed generation or render is the error response, with no further call
\* or launch.
C14_NoRetry == []C14_Once /\ [][C14_Step]_vars

\* A generate request ended after its one call failed, beside an export
\* request that ended after a failure in its browser while the other export
\* request holds a browser of its own.
C14_Witness ==
    /\ reqs["r1"].pc = "done"
    /\ wire.stage = "generateText"
    /\ wire.error = NonError
    /\ exports["e1"].pc = "done"
    /\ exports["e1"].error = ThrownValue
    /\ exports["e1"].browser = 1
    /\ exports["e2"].browser = 2

\* The prompts of the bodies that meet every field constraint.
ValidPrompts == {systemPrompt(p) : p \in {b \in Bodies : ViolatedFields(b) = {}}}

\* C15: a generate request passes limiter, validator, prompt and Generation
\* Client in this order. A request the limiter rejects is answered 429 with
\* nothing validated or assembled; one that fails validation is answered 400
\* with no prompt and no call; the Generation Client is called only for an
\* admitted request that was validated and assembled, and a validated
\* request has exactly one prompt, that of a valid body.
C15_StageOrder ==
    \A r \in Reqs :
        LET q == reqs[r] IN
        /\ q.aiCalls <= q.prompts /\ q.prompts <= q.parses /\ q.parses <= 1
        /\ (q.pc \in {"idle", "awaitBody"} => q.parses = 0)
        /\ (q.pc = "awaitBody" => q.ip \in DOMAIN admitWindow)
        /\ (q.pc = "awaitAI" => q.aiCalls = 1)
        /\ (q.prompts = 1 <=> q.system # <<>>)
        /\ (q.prompts = 1 => q.system \in ValidPrompts)
        /\ (q.pc = "done" /\ wire.req = r =>
                /\ (wire.stage = "limiter" =>
                        /\ wire.response.status = 429
                        /\ q.parses = 0 /\ q.prompts = 0 /\ q.aiCalls = 0)
                /\ (wire.error.type = "ZodError" =>
                        /\ wire.response.status = 400
                        /\ q.parses = 1 /\ q.prompts = 0 /\ q.aiCalls = 0)
                /\ (q.parses = 1 /\ wire.error.type # "ZodError" => q.prompts = 1)
                /\ (q.aiCalls = 1 => wire.stage = "generateText"))

\* The limiter rejected a request: 429, and nothing else was done.
C15_Witness ==
    /\ reqs["r1"].pc = "done"
    /\ wire.stage = "limiter"
    /\ wire.response.status = 429
    /\ reqs["r1"].parses = 0

(***************************************************************************)
(* Claims about the limiter's records.                                     *)
(***************************************************************************)
C16_Step ==
    \A k \in Keys :
        (lastCall' # lastCall /\ lastCall'.key = k /\ ~lastCall'.allowed) =>
            /\ k \in DOMAIN rateLimitMap
            /\ rateLimitMap[k].count >= maxRequests
            /\ now <= rateLimitMap[k].resetTime
            /\ rateLimitMap' = rateLimitMap

\* C16: a rejected call (key at capacity inside its window) changes nothing:
\* the key's count and reset time and every other key's record are after the
\* call what they were before it.
C16_RejectionHasNoEffect == [][C16_Step]_vars

\* A call was rejected while both keys have records.
C16_Witness ==
    /\ ~lastCall.allowed
    /\ lastCall.at = now
    /\ DOMAIN rateLimitMap = Keys
    /\ rateLimitMap[lastCall.key].count = maxRequests

C17_Step ==
    \A k \in Keys :
        (lastCall' # lastCall /\ lastCall'.key = k) =>
            /\ IF k \notin DOMAIN rateLimitMap
               THEN /\ lastCall'.allowed
                    /\ rateLimitMap'[k] = [count |-> 1, resetTime |-> now + windowMs]
               ELSE IF now > rateLimitMap[k].resetTime
               THEN /\ lastCall'.allowed
                    /\ rateLimitMap'[k] = [count |-> 1, resetTime |-> now + windowMs]
               ELSE IF lastCall'.allowed
               THEN /\ rateLimitMap'[k].count = rateLimitMap[k].count + 1
                    /\ rateLimitMap'[k].resetTime = rateLimitMap[k].resetTime
               ELSE rateLimitMap'[k] = rateLimitMap[k]
            /\ \A o \in (DOMAIN rateLimitMap) \ {k} : rateLimitMap'[o] = rateLimitMap[o]

\* C17: a record is reset to count 1 and reset time now + 60 s exactly when
\* the key has no record or the time is past the record's reset time; at the
\* reset time itself the call still counts in the old window; every other
\* admitted call adds exactly 1 to the count and keeps the reset time.
C17_ResetExactlyWhenElapsed == [][C17_Step]_vars

\* A call at the very instant of the reset time was counted in the old window.
C17_Witness ==
    /\ lastCall.allowed
    /\ lastCall.at = now
    /\ lastCall.count >= 2
    /\ rateLimitMap[lastCall.key].resetTime = now

(***************************************************************************)
(* Claims about the lists of the prompt.                                   *)
(***************************************************************************)
\* C18: the prompt lists the objectives as bullets, one per objective given,
\* in input order and with no padding: after the line
\* `**Learning objectives:**` come exactly k lines `- <objective i>` and then
\* an empty line, and the INPUT list holds the same k objectives behind
\* bullet signs, the line after them being the time available.
C18_ObjectiveBullets ==
    prompt # <<>> =>
        LET objs == lessonRequest.objectives.v
            k == Len(objs)
            at == LineOf(prompt, "**Learning objectives:**")
            in == LineOf(prompt, "- Topic: " \o lessonRequest.topic.v) + 1
        IN  /\ k \in 1..3
            /\ at > 0
            /\ \A i \in 1..k : prompt[at + i] = "- " \o objs[i].v
            /\ prompt[at + k + 1] = ""
            /\ in > 1
            /\ prompt[in] = "- Learning objectives (bullets): \\u2022 " \o objs[1].v
            /\ \A i \in 2..k : prompt[in + i - 1] = "\\u2022 " \o objs[i].v
            /\ prompt[in + k] = "- Time available: " \o lessonRequest.duration.v

\* A prompt was assembled for a request with two objectives.
C18_Witness ==
    /\ prompt # <<>>
    /\ lessonRequest.objectives =
          Arr(<<Str("Understand equivalent fractions"), Str("Add fractions")>>)

\* A numbered entry of the answer key: two spaces, `<number>)`, an ellipsis.
AnswerEntries == {"  " \o ToString(k) \o ") \\u2026" : k \in 1..20}

\* The numbered entries of `section` between its lines `from` and `to`.
EntriesBetween(section, from, to) ==
    Cardinality({i \in (from + 1)..(to - 1) : section[i] \in AnswerEntries})

SupportEntries(key) ==
    EntriesBetween(key, LineOf(key, "- Support"), LineOf(key, "- Core"))
CoreEntries(key) ==
    EntriesBetween(key, LineOf(key, "- Core"), LineOf(key, "- Extension"))
ExtensionEntries(key) ==
    EntriesBetween(key, LineOf(key, "- Extension"), Len(key) + 1)

\* C19 as stated: the Answer Key has one numbered entry per requested
\* question: n_support entries under Support, n_core under Core and
\* n_extension under Extension.
C19_AnswerEntriesMatchCounts ==
    prompt # <<>> =>
        LET key == SectionOf(prompt, "## ANSWER KEY") IN
        /\ 2 * SupportEntries(key) = lessonRequest.n_support.v
        /\ 2 * CoreEntries(key) = lessonRequest.n_core.v
        /\ 2 * ExtensionEntries(key) = lessonRequest.n_extension.v

\* C19 as amended: the Answer Key is a fixed schematic, the tiers Support,
\* Core and Extension in this order with exactly two numbered entries each
\* whatever the counts; that every item gets an answer is asked for by the
\* rule `Provide an Answer Key for every item.`
C19_AnswerKeySchematic ==
    prompt # <<>> =>
        LET key == SectionOf(prompt, "## ANSWER KEY") IN
        /\ 0 < LineOf(key, "- Support")
        /\ LineOf(key, "- Support") < LineOf(key, "- Core")
        /\ LineOf(key, "- Core") < LineOf(key, "- Extension")
        /\ SupportEntries(key) = 2
        /\ CoreEntries(key) = 2
        /\ ExtensionEntries(key) = 2
        /\ Occurs(<<"- Support", "  1) \\u2026", "  2) \\u2026",
                    "- Core", "  1) \\u2026", "  2) \\u2026",
                    "- Extension", "  1) \\u2026", "  2) \\u2026">>, key)
        /\ HasLine(prompt, "- Provide an Answer Key for every item.")

\* A prompt was assembled for 3 support, 15 core and 1 extension questions.
C19_Witness ==
    /\ prompt # <<>>
    /\ lessonRequest.n_core = Whole(15)
    /\ lessonRequest.n_extension = Whole(1)

\* C20: the parts of the output structure come in one order: title line,
\* curriculum alignment, objectives, time and materials, Support, Core,
\* Extension, Answer Key, then the Rubric when included, then the Teacher
\* Notes when included; the sentinel is the last line of the prompt whatever
\* the flags are, and occurs nowhere before.
C20_FixedOrder ==
    prompt # <<>> =>
        LET q == lessonRequest
            title == LineOf(prompt, "# " \o q.subject.v \o " \\u2014 " \o q.topic.v
                                        \o " (" \o q.grade.v \o ")")
            aligned == LineOf(prompt, "**Aligned to:** " \o q.curriculum.v)
            objectives == LineOf(prompt, "**Learning objectives:**")
            time == LineOf(prompt, "**Time:** " \o q.duration.v
                                       \o "   **Materials:** " \o q.materials.v)
            support == LineOf(prompt, "## SUPPORT")
            core == LineOf(prompt, "## CORE")
            extension == LineOf(prompt, "## EXTENSION")
            key == LineOf(prompt, "## ANSWER KEY")
            rubric == LineOf(prompt, "## QUICK RUBRIC (4 levels)")
            notes == LineOf(prompt, "## TEACHER NOTES (not for students)")
            end == LineOf(prompt, "=== End of Worksheet ===")
            last == IF q.include_teacher_notes.v THEN notes
                    ELSE IF q.include_rubric.v THEN rubric ELSE key
        IN  /\ LineOf(prompt, "OUTPUT FORMAT (exactly this structure)") + 1 = title
            /\ 1 < title /\ title < aligned /\ aligned < objectives
            /\ objectives < time /\ time < support /\ support < core
            /\ core < extension /\ extension < key
            /\ (q.include_rubric.v => key < rubric)
            /\ (q.include_teacher_notes.v => key < notes)
            /\ (q.include_rubric.v /\ q.include_teacher_notes.v => rubric < notes)
            /\ last < end
            /\ end = Len(prompt)

\* A prompt was assembled with both the rubric and the teacher notes.
C20_Witness ==
    /\ prompt # <<>>
    /\ lessonRequest.include_rubric = Bool(TRUE)
    /\ lessonRequest.include_teacher_notes = Bool(TRUE)

(***************************************************************************)
(* Claims about the PDF and the failures of the export endpoint.           *)
(***************************************************************************)
\* C21: the PDF is asked for in Letter format exactly when pageSize is the
\* text "Letter", and in A4 for every other value and for a missing pageSize;
\* the margins are 1 inch on all four sides in both cases.
C21_PageFormat ==
    \A e \in Exps :
        exports[e].response.contentType = "application/pdf" =>
            LET size == Member(exports[e].body, "pageSize")
                pdf == exports[e].response.pdf
            IN  /\ exports[e].pc \in {"close", "done"}
                /\ pdf.format \in {"letter", "a4"}
                /\ (pdf.format = "letter" <=> (size.t = "string" /\ size.v = "Letter"))
                /\ pdf.margin.top = "1in" /\ pdf.margin.right = "1in"
                /\ pdf.margin.bottom = "1in" /\ pdf.margin.left = "1in"

\* A request without pageSize was answered with an A4 PDF.
C21_Witness ==
    /\ exports["e1"].pc = "done"
    /\ exports["e1"].response.status = 200
    /\ Member(exports["e1"].body, "pageSize") = Absent
    /\ exports["e1"].response.pdf.format = "a4"

\* C22: every failure of an export request is caught and answered 500 with
\* the error's message and, for an Error, its stack (a thrown value that is
\* no Error gives 'Unknown error' and no stack); a request without failure
\* is answered 200 or 400; each request that has ended has exactly one
\* response, and no request is left anywhere but in the handler's steps.
C22_ExportFailuresAnswered ==
    \A e \in Exps :
        LET x == exports[e] IN
        /\ x.pc \in {"idle", "awaitJson", "generateContent", "launch", "newPage",
                     "setContent", "emulateMediaType", "addStyleTag", "pdf",
                     "close", "done"}
        /\ x.sent = (IF x.pc = "done" THEN 1 ELSE 0)
        /\ (x.pc # "done" => x.error = NoFailure)
        /\ (x.pc = "done" =>
                /\ x.response.status \in {200, 400, 500}
                /\ (x.error = NoFailure <=> x.response.status \in {200, 400})
                /\ (x.error.type = "Error" =>
                        /\ x.response.status = 500
                        /\ x.response.contentType = "application/json"
                        /\ x.response.message = x.error.message
                        /\ x.response.stack = x.error.stack
                        /\ x.response.stack.t = "string")
                /\ (x.error.type = "thrown value" =>
                        /\ x.response.status = 500
                        /\ x.response.message = "Unknown error"
                        /\ x.response.stack = Absent))

\* The load of the page timed out and the request was answered 500 with the
\* message and the stack.
C22_Witness ==
    /\ exports["e1"].pc = "done"
    /\ exports["e1"].browser # 0
    /\ exports["e1"].error = Failure("Navigation timeout of 30000 ms exceeded")
    /\ exports["e1"].response.status = 500
    /\ exports["e1"].response.stack.t = "string"

(***************************************************************************)
(* Further claims about the validator.                                     *)
(***************************************************************************)
\* C23: the validator accepts a count only when it is an integer: a payload
\* whose n_support, n_core, n_extension or max_pages is a number that is not
\* an integer is rejected with an issue naming that field.
C23_CountsAreIntegers ==
    parsed.done =>
        \A f \in {"n_support", "n_core", "n_extension", "max_pages"} :
            (body[f].t = "number" /\ body[f].v % 2 = 1)
                => f \in NamedFields(parsed.issues)

(***************************************************************************)
(* Further claims about the limiter in the generate endpoint.              *)
(***************************************************************************)
C26_Step ==
    /\ \A k \in DOMAIN rateLimitMap :
        /\ k \in DOMAIN rateLimitMap'
        /\ (rateLimitMap'[k].resetTime = rateLimitMap[k].resetTime
                => rateLimitMap'[k].count >= rateLimitMap[k].count)
    /\ \A r \in Reqs :
        /\ (reqs[r].pc # "idle" /\ reqs'[r] # reqs[r] => rateLimitMap' = rateLimitMap)
        /\ (reqs[r].pc = "idle" /\ reqs'[r].pc = "awaitBody" =>
                LET k == reqs'[r].ip IN
                rateLimitMap'[k].count =
                    IF k \in DOMAIN admitWindow /\ InWindow(admitWindow[k], now)
                    THEN admitWindow[k].admits + 1 ELSE 1)
        /\ (reqs[r].pc = "idle" /\ reqs'[r] # reqs[r] =>
                LET k == reqs'[r].ip IN
                (k \in DOMAIN admitWindow /\ InWindow(admitWindow[k], now)
                    /\ admitWindow[k].admits >= maxRequests)
                    => /\ reqs'[r].pc = "done"
                       /\ wire'.req = r
                       /\ wire'.response.status = 429)

\* C26: every admitted generate request takes one unit of its key's window
\* quota and keeps it whatever happens next: no later step of the request,
\* failing or succeeding, changes the limiter's records, a count only drops
\* when its window is renewed, and once 10 requests were admitted in a window
\* the next one is answered 429, whatever became of the 10.
C26_FailuresCount == [][C26_Step]_vars

\* Without a credential, so that none of the 10 admitted requests succeeded,
\* the 11th was rejected.
C26_Witness ==
    /\ ~apiKey
    /\ reqs["r1"].pc = "done"
    /\ wire.stage = "limiter"
    /\ wire.response.status = 429
    /\ rateLimitMap[reqs["r1"].ip].count = maxRequests

C27_Step ==
    /\ \A k \in DOMAIN rateLimitMap : k \in DOMAIN rateLimitMap'
    /\ \A r \in Reqs :
        /\ (reqs[r].pc # "idle" /\ reqs'[r] # reqs[r] => rateLimitMap' = rateLimitMap)
        /\ (reqs[r].pc = "idle" /\ reqs'[r] # reqs[r] =>
                LET k == IF reqs'[r].addr = NoIp THEN "unknown" ELSE reqs'[r].addr
                    called == checkRateLimit(rateLimitMap, k, now)
                IN  /\ \A j \in Keys \ {k} :
                        /\ j \in DOMAIN rateLimitMap' <=> j \in DOMAIN rateLimitMap
                        /\ j \in DOMAIN rateLimitMap => rateLimitMap'[j] = rateLimitMap[j]
                    /\ rateLimitMap'[k] = called.map[k]
                    /\ reqs'[r].pc = IF called.allowed THEN "awaitBody" ELSE "done")

\* C27: a call of the limiter for one key, admitted or rejected, leaves the
\* record of every other key as it was; a record, once created, stays in the
\* map; and a request without a client address is counted under the key
\* 'unknown', so all such requests draw on one quota.
C27_KeysIndependent == [][C27_Step]_vars

\* An address-less request was rejected on the full quota of 'unknown' while
\* the record of the other key stands below its quota.
C27_Witness ==
    /\ reqs["r1"].pc = "done"
    /\ reqs["r1"].addr = NoIp
    /\ wire.stage = "limiter"
    /\ rateLimitMap["unknown"].count = maxRequests
    /\ "203.0.113.7" \in DOMAIN rateLimitMap
    /\ rateLimitMap["203.0.113.7"].count \in 1..3

(***************************************************************************)
(* The kinds of failure of the generate endpoint, in the order of their    *)
(* precedence, and what a failure of each kind is answered with.           *)
(***************************************************************************)
KindOrder == <<"validation", "credential", "quota", "safety", "generic">>

Says(e, words) == e.type \in {"Error", "ZodError"} /\ e.message \cap words # {}

MatchesKind(e, kind) ==
    CASE kind = "validation" -> e.type = "ZodError"
      [] kind = "credential" -> Says(e, {"API key"})
      [] kind = "quota"      -> Says(e, {"quota", "limit"})
      [] kind = "safety"     -> Says(e, {"safety", "blocked"})
      [] kind = "generic"    -> TRUE

FirstKind(e) ==
    KindOrder[CHOOSE i \in 1..Len(KindOrder) :
                /\ MatchesKind(e, KindOrder[i])
                /\ \A j \in 1..(i - 1) : ~MatchesKind(e, KindOrder[j])]

KindStatus(kind) ==
    CASE kind = "validation" -> 400
      [] kind = "credential" -> 401
      [] kind = "quota"      -> 429
      [] kind = "safety"     -> 400
      [] kind = "generic"    -> 500

KindMessage(kind) ==
    CASE kind = "validation" -> "Invalid input data"
      [] kind = "credential" -> "Google AI API key is not configured or invalid. Please check your GOOGLE_GENERATIVE_AI_API_KEY environment variable."
      [] kind = "quota"      -> "API quota exceeded. Please try again later."
      [] kind = "safety"     -> "Content was blocked by safety filters. Please try different inputs."
      [] kind = "generic"    -> "Failed to generate worksheet. Please try again."

\* C28: a failure of a generate request is answered once, with the status and
\* the message of the first kind it matches in the order validation,
\* credential ('API key'), quota ('quota' or 'limit'), safety ('safety' or
\* 'blocked'), generic, whatever later kinds its message matches as well.
C28_Precedence ==
    \A r \in Reqs :
        (reqs[r].pc = "done" /\ wire.req = r /\ wire.error # NoError) =>
            /\ reqs[r].sent = 1
            /\ wire.response.status = KindStatus(FirstKind(wire.error))
            /\ wire.response.message = KindMessage(FirstKind(wire.error))
            /\ (FirstKind(wire.error) # "validation" => wire.response.errors = <<>>)
            /\ wire.response.markdown = ""

\* A failure whose message says both 'API key' and 'quota' was answered 401.
C28_Witness ==
    /\ reqs["r1"].pc = "done"
    /\ wire.stage = "generateText"
    /\ wire.error = ErrorWith({"API key", "quota"})
    /\ wire.response.status = 401

(***************************************************************************)
(* Claims about the form.                                                  *)
(***************************************************************************)
\* C24: a generateWorksheet call that set isGenerating, and an exportPDF call
\* that set isExporting, sets the flag back to false once its request has
\* succeeded, come back with an error status, or thrown; the flag is set
\* exactly while the call is under way, so the button is enabled again.
C24_FlagsComeBack ==
    /\ [](ui.isGenerating <=> calls.gen.pc # "idle")
    /\ [](ui.isExporting <=> calls.exp.pc # "idle")
    /\ (ui.isGenerating ~> ~ui.isGenerating)
    /\ (ui.isExporting ~> ~ui.isExporting)

\* A generate call came back with an error status and an export call threw,
\* and both flags are false again.
C24_Witness ==
    /\ calls.gen.outcome = "status"
    /\ calls.exp.outcome = "throws"
    /\ ~ui.isGenerating
    /\ ~ui.isExporting

\* C25: after any sequence of addObjective, removeObjective and
\* updateObjective, several of them against one render included, the
\* objectives are between 1 and 3 and are what the operations mean one after
\* the other: no edit of an earlier operation is lost.
C25_ObjectivesKept ==
    /\ Len(ui.inputs.objectives.v) \in 1..3
    /\ ui.inputs.objectives.v = edits.intended

C29_Step ==
    (generateWorksheet /\ ~validateAll(ui.inputs).valid) =>
        /\ calls'.gen.pc = "idle"
        /\ generateVars' = generateVars
        /\ limiterVars' = limiterVars
        /\ ui'.inputs = ui.inputs
        /\ ui'.isGenerating = ui.isGenerating
        /\ ui'.markdown = ui.markdown
        /\ ui'.estimatedPages = ui.estimatedPages
        /\ ui'.isExporting = ui.isExporting
        /\ ui'.errors = validateAll(ui.inputs).errors
        /\ toast'.title = "Invalid input"

\* C29: when validateAll finds an invalid field, generateWorksheet sends no
\* request and changes only the errors map and the toast: isGenerating,
\* markdown and estimatedPages stay, and the endpoint and its limiter are
\* as they were. A request is at the endpoint only for a call whose inputs
\* validateAll passed.
C29_RejectedSubmission ==
    /\ [][C29_Step]_vars
    /\ [](reqs["r1"].pc # "idle" =>
            calls.gen.pc = "fetch" /\ validateAll(calls.gen.body).valid)

\* A submission was rejected for the number of core questions, and the
\* limiter has counted no request.
C29_Witness ==
    /\ calls.gen.outcome = "invalid"
    /\ toast.title = "Invalid input"
    /\ "n_core" \in DOMAIN ui.errors
    /\ ui.errors["n_core"] = "Core questions must be between 1 and 15."
    /\ ~ui.isGenerating
    /\ rateLimitMap = <<>>
    /\ reqs["r1"].pc = "idle"

====
